---------------------------- MODULE Spec2Model ----------------------------
(***************************************************************************)
(* Model of the Browser Autofill Assistant's classification pipeline.      *)
(*                                                                         *)
(* Part I models src/src/lib/llm/gemini-client.js: the rate limiter        *)
(* (RATE_LIMIT), the two response caches (CACHE.fieldAnalysis and          *)
(* CACHE.questionAnalysis, JavaScript Maps kept in insertion order) and    *)
(* the two asynchronous operations analyzeFields and analyzeQuestion,      *)
(* split at their awaits so that overlapping invocations interleave as     *)
(* they do on the JavaScript event loop.                                   *)
(*                                                                         *)
(* Strings are TLA+ strings; characters are one-character strings.         *)
(* Confidences are exact rationals [n, d] in lowest terms.                 *)
(***************************************************************************)
EXTENDS Integers, Sequences, FiniteSets, TLC

VARIABLES
    now,         \* Date.now(), in ms
    RATE_LIMIT,  \* [lastRequestTime, dailyUsage, dailyResetTime]
    CACHE,       \* [fieldAnalysis, questionAnalysis]: sequences of entries
    calls,       \* the invocations of analyzeFields / analyzeQuestion
    ticks,       \* how often the clock has advanced by each step so far (bounded)
    dailyDenial, \* history: "denied" once a caller was denied on the daily limit in
                 \* this window, "readmitted" once the check that reset it was granted
    session,     \* the run's inputs: where it starts, what callers request, how time passes
    formFields,  \* the content script's field descriptors, as mapFields left them
    answer,      \* what the last direct call of a FieldMapper mapping function returned
    stageCalls,  \* per field of the last mapFields call: the mapping functions its
                 \* callback called, in order
    storageLocal, \* chrome.storage.local: the values under its keys
    handlers     \* the service worker's message handlers, one per message received

vars ==
    <<now, RATE_LIMIT, CACHE, calls, ticks, dailyDenial, session, formFields, answer,
      stageCalls, storageLocal, handlers>>

(***************************************************************************)
(* Bounds of the model.                                                    *)
(***************************************************************************)
NumInvocations == 2
MaxTicksPerDelta == 1
MaxControls == 2
\* The longest question, in words, that is put to the answer library.
MaxWords == 4
\* The messages the service worker receives in a run.
MaxMessages == 2

\* if (applicationLogs.length > 50)
keptApplications == 50

(***************************************************************************)
(* Program constants.                                                      *)
(***************************************************************************)
requestsPerMinute == 60
requestsPerDay == 1500
maxSize == 100
DayMs == 24 * 60 * 60 * 1000
ttl == 24 * 60 * 60 * 1000
minInterval == (60 * 1000) \div requestsPerMinute

(***************************************************************************)
(* Generic helpers.                                                        *)
(***************************************************************************)
Min(a, b) == IF a <= b THEN a ELSE b
Max(a, b) == IF a >= b THEN a ELSE b

RECURSIVE GCD(_, _)
GCD(a, b) == IF b = 0 THEN a ELSE GCD(b, a % b)

\* The rational n/d (d > 0, n >= 0) in lowest terms.
Rat(n, d) == LET g == GCD(n, d) IN [n |-> n \div g, d |-> d \div g]
RatLT(p, q) == p.n * q.d < q.n * p.d
RatLE(p, q) == p.n * q.d <= q.n * p.d
RatMax(p, q) == IF RatLT(p, q) THEN q ELSE p
RatZero == Rat(0, 1)

\* The characters at 1-based positions of a string.
CharAt(s, i) == SubSeq(s, i, i)

\* String.prototype.substring(0, n)
substring0(s, n) == SubSeq(s, 1, Min(n, Len(s)))

\* Array.prototype.join over a sequence of strings
RECURSIVE join(_, _)
join(strs, sep) ==
    IF Len(strs) = 0 THEN ""
    ELSE IF Len(strs) = 1 THEN strs[1]
    ELSE strs[1] \o sep \o join(Tail(strs), sep)

\* Decimal text of a natural number (template-literal conversion of a number).
Digits == "0123456789"
RECURSIVE NumToStr(_)
NumToStr(k) ==
    IF k < 10 THEN CharAt(Digits, k + 1)
    ELSE NumToStr(k \div 10) \o CharAt(Digits, (k % 10) + 1)

(***************************************************************************)
(* btoa: base64 of a string of Latin-1 code units.  TLA+ string literals   *)
(* hold ASCII only; WideChar is the one stand-in used in the inputs for a  *)
(* code unit above 255 (written U+20AC in the comments), on which btoa     *)
(* throws InvalidCharacterError.                                           *)
(***************************************************************************)
AsciiLow == " !\"#$%&'()*+,-./0123456789:;<=>?@ABCDEFGHIJKLMNOPQRSTUVWXYZ[\\]^_"
AsciiHigh == "abcdefghijklmnopqrstuvwxyz{|}~"
WideChar == "\f"
\* The stand-in for the Latin-1 letter U+00E9, which the heuristic tables hold.
EAcute == "\r"
B64Chars == "ABCDEFGHIJKLMNOPQRSTUVWXYZabcdefghijklmnopqrstuvwxyz0123456789+/"

\* The code unit of a character: AsciiLow holds codes 32..95, AsciiHigh 97..126.
CharCode(c) ==
    IF c = WideChar THEN 8364
    ELSE IF c = EAcute THEN 233
    ELSE IF \E i \in 1..Len(AsciiLow) : CharAt(AsciiLow, i) = c
         THEN 31 + (CHOOSE i \in 1..Len(AsciiLow) : CharAt(AsciiLow, i) = c)
         ELSE 96 + (CHOOSE i \in 1..Len(AsciiHigh) : CharAt(AsciiHigh, i) = c)

B64(v) == CharAt(B64Chars, v + 1)

btoaThrows(s) == \E i \in 1..Len(s) : CharCode(CharAt(s, i)) > 255

\* The four characters that encode a group of n <= 3 code units a, b, c.
b64Group(a, b, c, n) ==
    B64(a \div 4) \o B64((a % 4) * 16 + (b \div 16))
      \o (IF n = 1 THEN "==" ELSE B64((b % 16) * 4 + (c \div 64)))
      \o (IF n = 1 THEN "" ELSE IF n = 2 THEN "=" ELSE B64(c % 64))

\* The code unit at position i of s, or 0 past its end.
codeAt(s, i) == IF i <= Len(s) THEN CharCode(CharAt(s, i)) ELSE 0

RECURSIVE btoa(_)
btoa(s) ==
    IF Len(s) = 0 THEN ""
    ELSE b64Group(codeAt(s, 1), codeAt(s, 2), codeAt(s, 3), Min(Len(s), 3))
           \o btoa(SubSeq(s, 4, Len(s)))

(***************************************************************************)
(* String helpers used by the answer library.                              *)
(***************************************************************************)
\* String.prototype.toLowerCase on the ASCII letters.
lowerOf(c, k) == IF c # WideChar /\ k >= 65 /\ k <= 90 THEN CharAt(AsciiHigh, k - 64) ELSE c

lowerChar(c) == lowerOf(c, CharCode(c))

RECURSIVE toLowerCase(_)
toLowerCase(s) ==
    IF Len(s) = 0 THEN "" ELSE lowerChar(CharAt(s, 1)) \o toLowerCase(SubSeq(s, 2, Len(s)))

\* String.prototype.trim (the inputs hold no whitespace but the space).
RECURSIVE trim(_)
trim(s) ==
    IF Len(s) = 0 THEN ""
    ELSE IF CharAt(s, 1) = " " THEN trim(SubSeq(s, 2, Len(s)))
    ELSE IF CharAt(s, Len(s)) = " " THEN trim(SubSeq(s, 1, Len(s) - 1))
    ELSE s

\* The least position >= from at which word occurs in s, or 0.
indexOfFrom(s, word, from) ==
    LET hits == {p \in from..(Len(s) - Len(word) + 1) : SubSeq(s, p, p + Len(word) - 1) = word}
    IN IF hits = {} THEN 0 ELSE CHOOSE p \in hits : \A q \in hits : p <= q

\* String.prototype.includes
includes(s, word) == indexOfFrom(s, word, 1) # 0

\* RegExp.prototype.test for a pattern w1.*w2.*...*wn of literal words.
RECURSIVE testFrom(_, _, _)
testFrom(words, s, from) ==
    IF Len(words) = 0 THEN TRUE
    ELSE \E p \in {indexOfFrom(s, words[1], from)} :
             p # 0 /\ testFrom(Tail(words), s, p + Len(words[1]))

test(words, s) == testFrom(words, s, 1)

\* String.prototype.split(/\s+/)
RECURSIVE splitFrom(_, _, _)
splitFrom(s, i, cur) ==
    IF i > Len(s) THEN <<cur>>
    ELSE IF CharAt(s, i) = " " THEN
        IF i > 1 /\ CharAt(s, i - 1) = " " THEN splitFrom(s, i + 1, cur)
        ELSE <<cur>> \o splitFrom(s, i + 1, "")
    ELSE splitFrom(s, i + 1, cur \o CharAt(s, i))

split(s) == splitFrom(s, 1, "")

\* Array.prototype.flat of one level
RECURSIVE flat(_)
flat(seqs) == IF Len(seqs) = 0 THEN <<>> ELSE seqs[1] \o flat(Tail(seqs))

(***************************************************************************)
(* AnswerLibrary (src/src/lib/answer-library/answer-library.js).           *)
(* A pattern /w1.*w2/i is the sequence <<"w1", "w2">> of its literal words.*)
(***************************************************************************)
QUESTION_PATTERNS == <<
    [key |-> "whyInterested", patterns |-> <<
        <<"why", "interested", "position">>, <<"why", "want", "work", "here">>,
        <<"why", "apply", "job">>, <<"what", "attracts", "you", "role">>,
        <<"motivation", "applying">>, <<"why", "chose", "company">> >>],
    [key |-> "whyQualified", patterns |-> <<
        <<"why", "qualified">>, <<"what", "makes", "qualified">>,
        <<"why", "right", "candidate">>, <<"why", "should", "hire">>,
        <<"what", "qualifications">>, <<"relevant", "experience">> >>],
    [key |-> "careerGoals", patterns |-> <<
        <<"career", "goals">>, <<"professional", "goals">>,
        <<"where", "see", "yourself">>, <<"future", "plans">>,
        <<"career", "aspirations">>, <<"long", "term", "goals">> >>],
    [key |-> "greatestStrength", patterns |-> <<
        <<"greatest", "strength">>, <<"biggest", "strength">>, <<"key", "strength">>,
        <<"what", "strength">>, <<"top", "strength">>, <<"main", "strength">> >>],
    [key |-> "greatestWeakness", patterns |-> <<
        <<"greatest", "weakness">>, <<"biggest", "weakness">>, <<"area", "improvement">>,
        <<"what", "weakness">>, <<"areas", "develop">>, <<"growth", "areas">> >>],
    [key |-> "workStyle", patterns |-> <<
        <<"work", "style">>, <<"working", "style">>, <<"how", "work", "best">>,
        <<"preferred", "work", "environment">>, <<"ideal", "work", "environment">> >>],
    [key |-> "teamwork", patterns |-> <<
        <<"teamwork">>, <<"work", "team">>, <<"team", "player">>,
        <<"collaboration">>, <<"team", "environment">>, <<"work", "others">> >>],
    [key |-> "leadership", patterns |-> <<
        <<"leadership">>, <<"leadership", "style">>, <<"lead", "team">>,
        <<"management", "style">>, <<"leading", "others">> >>],
    [key |-> "challenges", patterns |-> <<
        <<"challenges">>, <<"difficult", "situation">>, <<"problem", "solving">>,
        <<"overcome", "obstacle">>, <<"handle", "pressure">>, <<"deal", "with", "conflict">> >>],
    [key |-> "motivation", patterns |-> <<
        <<"what", "motivates">>, <<"motivation">>, <<"what", "drives", "you">>,
        <<"what", "inspires">>, <<"passionate", "about">> >>]
>>

\* JavaScript null
Null == [isNull |-> TRUE]

\* getTemplate is async: called without await it yields a Promise, which is
\* truthy and whose spread ({...template}) contributes no property.
getTemplate(key) == [isPromise |-> TRUE]
spreadOf(template) == IF "isPromise" \in DOMAIN template THEN <<>> ELSE template

\* {...a, ...b}: object spread / property override
Merge(a, b) ==
    [k \in (DOMAIN a) \cup (DOMAIN b) |-> IF k \in DOMAIN b THEN b[k] ELSE a[k]]

\* The score/totalWords pair of one category for the question's words.
fuzzyScore(questionWords, patterns) ==
    LET patternKeywords == flat(patterns)
        counted == {i \in 1..Len(questionWords) : Len(questionWords[i]) > 2}
        hits == {i \in counted :
                   \E j \in 1..Len(patternKeywords) :
                       \/ includes(patternKeywords[j], questionWords[i])
                       \/ includes(questionWords[i], patternKeywords[j])}
    IN [score |-> Cardinality(hits), totalWords |-> Cardinality(counted)]

\* similarity = totalWords > 0 ? score / totalWords : 0
fuzzySimilarity(sc) == IF sc.totalWords > 0 THEN Rat(sc.score, sc.totalWords) ELSE RatZero

\* The loop of findFuzzyMatch over the categories k..Len(QUESTION_PATTERNS);
\* fuzzyStep is its body for category k, whose similarity is given.
RECURSIVE fuzzyLoop(_, _, _, _)
\* A faulty update that also replaces the best match on an equal similarity.
fuzzyStepOnTie(questionWords, k, bestScore, bestMatch, similarity) ==
    IF RatLE(bestScore, similarity) /\ RatLT(Rat(3, 10), similarity)
    THEN fuzzyLoop(questionWords, k + 1, similarity,
             Merge(Merge([key |-> QUESTION_PATTERNS[k].key],
                         spreadOf(getTemplate(QUESTION_PATTERNS[k].key))),
                   [matchConfidence |-> Rat(similarity.n * 7, similarity.d * 10)]))
    ELSE fuzzyLoop(questionWords, k + 1, bestScore, bestMatch)

fuzzyStep(questionWords, k, bestScore, bestMatch, similarity) ==
    IF RatLT(bestScore, similarity) /\ RatLT(Rat(3, 10), similarity)
    THEN fuzzyLoop(questionWords, k + 1, similarity,
             Merge(Merge([key |-> QUESTION_PATTERNS[k].key],
                         spreadOf(getTemplate(QUESTION_PATTERNS[k].key))),
                   [matchConfidence |-> Rat(similarity.n * 7, similarity.d * 10)]))
    ELSE fuzzyLoop(questionWords, k + 1, bestScore, bestMatch)

fuzzyLoop(questionWords, k, bestScore, bestMatch) ==
    IF k > Len(QUESTION_PATTERNS) THEN bestMatch
    ELSE fuzzyStep(questionWords, k, bestScore, bestMatch,
                   fuzzySimilarity(fuzzyScore(questionWords, QUESTION_PATTERNS[k].patterns)))

findFuzzyMatch(questionText) == fuzzyLoop(split(questionText), 1, RatZero, Null)

\* The first category, in declaration order, one of whose patterns matches.
firstPatternMatch(normalizedQuestion) ==
    LET matching == {k \in 1..Len(QUESTION_PATTERNS) :
                       \E j \in 1..Len(QUESTION_PATTERNS[k].patterns) :
                           test(QUESTION_PATTERNS[k].patterns[j], normalizedQuestion)}
    IN IF matching = {} THEN 0 ELSE CHOOSE k \in matching : \A m \in matching : k <= m

\* The rest of findMatchingTemplate, with the first matching category k (or 0).
matchedTemplate(normalizedQuestion, k) ==
    IF k # 0
    THEN Merge(Merge([key |-> QUESTION_PATTERNS[k].key],
                     spreadOf(getTemplate(QUESTION_PATTERNS[k].key))),
               [matchConfidence |-> Rat(9, 10)])
    ELSE findFuzzyMatch(normalizedQuestion)

matchNormalized(normalizedQuestion) ==
    matchedTemplate(normalizedQuestion, firstPatternMatch(normalizedQuestion))

findMatchingTemplate(questionText) ==
    IF questionText = "" THEN Null
    ELSE matchNormalized(trim(toLowerCase(questionText)))


(***************************************************************************)
(* GeminiClient (src/src/lib/llm/gemini-client.js): pure functions.        *)
(* A JavaScript object is a record holding the properties it has; a        *)
(* property it lacks reads as undefined.                                   *)
(***************************************************************************)
\* `${obj.k}` in a template literal
templateStr(obj, k) == IF k \in DOMAIN obj THEN obj[k] ELSE "undefined"

\* obj.k || ''
orEmpty(obj, k) == IF k \in DOMAIN obj THEN obj[k] ELSE ""

\* Array.prototype.map
RECURSIVE fieldHashes(_)
fieldHashes(fields) ==
    IF Len(fields) = 0 THEN <<>>
    ELSE <<templateStr(fields[1], "type") \o "-" \o templateStr(fields[1], "name") \o "-"
             \o templateStr(fields[1], "id") \o "-" \o templateStr(fields[1], "label")>>
         \o fieldHashes(Tail(fields))

fieldKeyInput(fields, context) ==
    join(fieldHashes(fields), "|") \o orEmpty(context, "atsType") \o "-" \o orEmpty(context, "url")

\* generateFieldCacheKey: [threw] when btoa throws, else [threw, key].
fieldKeyOf(text) ==
    IF btoaThrows(text) THEN [threw |-> TRUE, key |-> ""]
    ELSE [threw |-> FALSE, key |-> "fields-" \o substring0(btoa(text), 32)]

generateFieldCacheKey(fields, context) == fieldKeyOf(fieldKeyInput(fields, context))

questionKeyOf(questionText, contextHash) ==
    IF btoaThrows(questionText) \/ btoaThrows(contextHash) THEN [threw |-> TRUE, key |-> ""]
    ELSE [threw |-> FALSE,
          key |-> "question-" \o substring0(btoa(questionText), 32) \o "-"
                    \o substring0(btoa(contextHash), 16)]

generateQuestionCacheKey(questionText, context) ==
    questionKeyOf(questionText,
                  orEmpty(context, "position") \o "-" \o orEmpty(context, "company"))

\* A faulty isCacheExpired: an entry expires as soon as its age reaches the TTL.
isCacheExpiredAtTtl(cachedResult, t) == t - cachedResult.timestamp >= ttl

\* isCacheExpired(cachedResult) at Date.now() = t
isCacheExpired(cachedResult, t) == t - cachedResult.timestamp > ttl

\* canMakeRequest() at Date.now() = t: the limiter state it leaves and its result.
\* A faulty daily reset: the window restarts but the count is kept.
dailyResetKeepsUsage(rl, t) ==
    IF t - rl.dailyResetTime > 24 * 60 * 60 * 1000
    THEN [rl EXCEPT !.dailyResetTime = t]
    ELSE rl

\* The daily reset at the head of canMakeRequest
dailyReset(rl, t) ==
    IF t - rl.dailyResetTime > 24 * 60 * 60 * 1000
    THEN [rl EXCEPT !.dailyUsage = 0, !.dailyResetTime = t]
    ELSE rl

\* Faulty limit checks: the daily limit admits one request too many; the daily
\* limit is not checked; the per-minute interval must be exceeded, not reached.
withinLimitsOffByOne(rl, t) ==
    IF rl.dailyUsage > requestsPerDay THEN FALSE
    ELSE t - rl.lastRequestTime >= minInterval

withinLimitsNoDaily(rl, t) == t - rl.lastRequestTime >= minInterval

withinLimitsStrict(rl, t) ==
    IF rl.dailyUsage >= requestsPerDay THEN FALSE
    ELSE t - rl.lastRequestTime > minInterval

\* The two limits canMakeRequest then checks
withinLimits(rl, t) ==
    IF rl.dailyUsage >= requestsPerDay THEN FALSE
    ELSE t - rl.lastRequestTime >= minInterval

\* A faulty canMakeRequest: a granted check already counts the request.
canMakeRequestCommits(rl, t) ==
    [rl |-> IF withinLimits(dailyReset(rl, t), t)
            THEN [dailyReset(rl, t) EXCEPT !.lastRequestTime = t, !.dailyUsage = @ + 1]
            ELSE dailyReset(rl, t),
     granted |-> withinLimits(dailyReset(rl, t), t)]

canMakeRequest(rl, t) ==
    [rl |-> dailyReset(rl, t), granted |-> withinLimits(dailyReset(rl, t), t)]

\* updateRateLimit() at Date.now() = t
updateRateLimit(rl, t) ==
    [rl EXCEPT !.lastRequestTime = t, !.dailyUsage = rl.dailyUsage + 1]

(***************************************************************************)
(* A cache Map is the sequence of its entries in insertion order.  An      *)
(* entry is [key, data, timestamp, src]; src is history (the request that  *)
(* wrote the entry), which the program does not store.                     *)
(***************************************************************************)
\* Map.prototype.get: the entry under key, or Null
cacheGet(cache, key) ==
    IF \E i \in 1..Len(cache) : cache[i].key = key
    THEN cache[CHOOSE i \in 1..Len(cache) : cache[i].key = key]
    ELSE Null

\* Map.prototype.set: an existing key keeps its position
cacheSet(cache, entry) ==
    IF \E i \in 1..Len(cache) : cache[i].key = entry.key
    THEN [i \in 1..Len(cache) |-> IF cache[i].key = entry.key THEN entry ELSE cache[i]]
    ELSE Append(cache, entry)

\* A faulty order: the sort by timestamp is descending.
sortsAfter(cache, i, j) ==
    \/ cache[i].timestamp > cache[j].timestamp
    \/ cache[i].timestamp = cache[j].timestamp /\ i < j

\* Whether entry i precedes entry j after the (stable) sort by timestamp.
sortsBefore(cache, i, j) ==
    \/ cache[i].timestamp < cache[j].timestamp
    \/ cache[i].timestamp = cache[j].timestamp /\ i < j

RECURSIVE keepFrom(_, _, _)
keepFrom(cache, i, removed) ==
    IF i > Len(cache) THEN <<>>
    ELSE (IF i \in removed THEN <<>> ELSE <<cache[i]>>) \o keepFrom(cache, i + 1, removed)

\* A faulty cleanup: the oldest entry goes whenever the map holds two or more.
cleanupCacheEager(cache) ==
    IF Len(cache) > 1
    THEN keepFrom(cache, 1, {i \in 1..Len(cache) :
                                \A j \in 1..Len(cache) : ~sortsBefore(cache, j, i)})
    ELSE cache

\* cleanupCache(cache)
cleanupCache(cache) ==
    IF Len(cache) > maxSize
    THEN LET toRemove == {i \in 1..Len(cache) :
                             Cardinality({j \in 1..Len(cache) : sortsBefore(cache, j, i)})
                                 < Len(cache) - maxSize}
         IN keepFrom(cache, 1, toRemove)
    ELSE cache

\* field.confidence || 0
confidenceOr0(field) == IF "confidence" \in DOMAIN field THEN field.confidence ELSE RatZero

\* fallbackFieldAnalysis(fields)
RECURSIVE fallbackFieldAnalysis(_)
fallbackFieldAnalysis(fields) ==
    IF Len(fields) = 0 THEN <<>>
    ELSE <<Merge(fields[1],
                 [confidence |-> RatMax(confidenceOr0(fields[1]), Rat(3, 10)),
                  mappingMethod |-> IF "mappingMethod" \in DOMAIN fields[1]
                                       /\ fields[1].mappingMethod # ""
                                    THEN fields[1].mappingMethod ELSE "fallback",
                  llmReasoning |-> "LLM analysis unavailable, using heuristic fallback"])>>
         \o fallbackFieldAnalysis(Tail(fields))

(***************************************************************************)
(* The provider's answer.  response.content tells what the text of the     *)
(* first candidate holds: "none" (no text), "prose" (no JSON value in it), *)
(* "malformed" (JSON.parse throws), "json" (response.value is the decoded  *)
(* value: a sequence of items for fields, an object for a question).       *)
(***************************************************************************)
\* A faulty merge by position: the index-th item, whatever fieldIndex it carries.
findByPosition(analysis, index) ==
    IF index <= Len(analysis) THEN analysis[index] ELSE Null

\* analysis.find(a => a.fieldIndex === index): the first such item, or Null
findByIndex(analysis, index) ==
    IF \E k \in 1..Len(analysis) : analysis[k].fieldIndex = index
    THEN analysis[CHOOSE k \in 1..Len(analysis) :
                     /\ analysis[k].fieldIndex = index
                     /\ \A m \in 1..(k - 1) : analysis[m].fieldIndex # index]
    ELSE Null

RECURSIVE enhanceFrom(_, _, _)
enhanceFrom(analysis, originalFields, index) ==
    IF index > Len(originalFields) THEN <<>>
    ELSE LET fieldAnalysis == findByIndex(analysis, index) IN
         <<IF fieldAnalysis # Null
           THEN Merge(originalFields[index],
                      [purpose |-> fieldAnalysis.purpose,
                       confidence |-> fieldAnalysis.confidence,
                       llmReasoning |-> fieldAnalysis.reasoning,
                       mappingMethod |-> "llm"])
           ELSE originalFields[index]>>
         \o enhanceFrom(analysis, originalFields, index + 1)

\* parseFieldAnalysisResponse(response, originalFields)
parseFieldAnalysisResponse(response, originalFields) ==
    IF response.content = "json"
    THEN enhanceFrom(response.value, originalFields, 1)
    ELSE originalFields

\* analysis.k || dflt
orDefault(obj, k, falsy, dflt) == IF k \in DOMAIN obj /\ obj[k] # falsy THEN obj[k] ELSE dflt

\* parseQuestionAnalysisResponse(response)
parseQuestionAnalysisResponse(response) ==
    IF response.content = "json"
    THEN LET analysis == response.value IN
         [category |-> templateStr(analysis, "category"),
          questionType |-> templateStr(analysis, "questionType"),
          keyPoints |-> orDefault(analysis, "keyPoints", <<>>, <<>>),
          responseStructure |-> orDefault(analysis, "responseStructure", <<>>, <<>>),
          advice |-> orDefault(analysis, "advice", <<>>, <<>>),
          suggestedLength |-> orDefault(analysis, "suggestedLength", "", "medium"),
          confidence |-> orDefault(analysis, "confidence", RatZero, Rat(1, 2)),
          source |-> "llm"]
    ELSE [category |-> "unknown", questionType |-> "unknown", keyPoints |-> <<>>,
          responseStructure |-> <<>>,
          advice |-> <<"Unable to analyze question automatically">>,
          suggestedLength |-> "medium", confidence |-> RatZero, source |-> "error"]

\* A faulty fallback that never consults the answer library.
templateAnalysisUnused(template) ==
    [category |-> "unknown", questionType |-> "unknown",
     keyPoints |-> <<"Manual analysis required">>,
     responseStructure |-> <<>>,
     advice |-> <<"Review question manually", "Consider using a template">>,
     suggestedLength |-> "medium", confidence |-> RatZero, source |-> "fallback"]

\* fallbackQuestionAnalysis(questionText), with window.AnswerLibrary loaded
templateAnalysis(template) ==
    IF template # Null
    THEN [category |-> orDefault(template, "category", "", "general"),
          questionType |-> template.key,
          keyPoints |-> <<"Matches template: " \o template.key>>,
          responseStructure |-> [opening |-> "Use template response",
                                 body |-> "Customize with personal details",
                                 closing |-> "Professional closing"],
          advice |-> <<"Personalize the template response", "Include specific examples">>,
          suggestedLength |-> "medium",
          confidence |-> orDefault(template, "matchConfidence", RatZero, Rat(1, 2)),
          source |-> "template_fallback"]
    ELSE [category |-> "unknown", questionType |-> "unknown",
          keyPoints |-> <<"Manual analysis required">>,
          responseStructure |-> <<>>,
          advice |-> <<"Review question manually", "Consider using a template">>,
          suggestedLength |-> "medium", confidence |-> RatZero, source |-> "fallback"]

fallbackQuestionAnalysis(questionText) == templateAnalysis(findMatchingTemplate(questionText))


(***************************************************************************)
(* The inputs of the model: the requests callers make and the answers the  *)
(* provider gives.                                                         *)
(***************************************************************************)
\* A descriptor as mapFields leaves it on a greenhouse page (rule stage).
FirstNameField ==
    [type |-> "text", name |-> "first_name", id |-> "first_name", label |-> "First Name",
     purpose |-> "firstName", confidence |-> Rat(9, 10), mappingMethod |-> "ats-specific"]
\* A raw descriptor without id and without mapping properties.
EmailField == [type |-> "email", name |-> "email", label |-> "Email"]
PhoneField == [type |-> "tel", name |-> "p", id |-> "p", label |-> "P"]
\* A label that holds U+20AC.
PriceField == [type |-> "text", name |-> "n", id |-> "n", label |-> "Pay " \o WideChar]

GreenhouseContext == [atsType |-> "greenhouse", url |-> "https://boards.greenhouse.io/acme"]
JobContext == [position |-> "Engineer", company |-> "Acme"]

FieldRequests == <<
    [fields |-> <<FirstNameField>>, context |-> GreenhouseContext],
    [fields |-> <<FirstNameField, EmailField>>, context |-> GreenhouseContext],
    [fields |-> <<PhoneField>>, context |-> <<>>],
    [fields |-> <<PriceField>>, context |-> GreenhouseContext] >>

QuestionRequests == <<
    [questionText |-> "Why are you interested in this position?", context |-> JobContext],
    [questionText |-> "Tell us more", context |-> <<>>],
    [questionText |-> "Why are you interested in our mission?", context |-> JobContext] >>

\* response.json() of an OK response, for a field batch
FieldJson ==
    [content |-> "json",
     value |-> <<[fieldIndex |-> 1, purpose |-> "firstName", confidence |-> Rat(19, 20),
                  reasoning |-> "name and label say first name"]>>]
\* An array the provider is free to send: a confidence given in percent, two
\* items for one field, and an item for a field the batch does not have.
FieldJsonLoose ==
    [content |-> "json", kind |-> "loose",
     value |-> <<[fieldIndex |-> 2, purpose |-> "email", confidence |-> Rat(95, 1),
                  reasoning |-> "type email"],
                 [fieldIndex |-> 2, purpose |-> "phone", confidence |-> Rat(1, 2),
                  reasoning |-> "second item for field 2"],
                 [fieldIndex |-> 3, purpose |-> "city", confidence |-> Rat(1, 2),
                  reasoning |-> "no such field"]>>]
FieldResponses == {FieldJson, FieldJsonLoose, [content |-> "prose"]}

\* The name a session knows an answer by.
kindOf(response) == IF "kind" \in DOMAIN response THEN response.kind ELSE response.content

\* response.json() of an OK response, for a question
QuestionJson ==
    [content |-> "json",
     value |-> [category |-> "motivation", questionType |-> "interest",
                keyPoints |-> <<"company", "role">>, confidence |-> Rat(4, 5)]]
\* An analysis in which the provider reports a confidence of 0.
QuestionJsonZero ==
    [content |-> "json", kind |-> "zero",
     value |-> [category |-> "other", questionType |-> "open",
                keyPoints |-> <<"unclear">>, confidence |-> RatZero]]
QuestionResponses == {QuestionJson, QuestionJsonZero, [content |-> "prose"]}

\* The requests of operation op, and the key of each (computed once).
Requests(op) == IF op = "fields" THEN FieldRequests ELSE QuestionRequests
Ops == {"fields", "question"}

keyOf(op, r) ==
    IF op = "fields"
    THEN generateFieldCacheKey(FieldRequests[r].fields, FieldRequests[r].context)
    ELSE generateQuestionCacheKey(QuestionRequests[r].questionText, QuestionRequests[r].context)

FieldKeys == [r \in 1..Len(FieldRequests) |-> keyOf("fields", r)]
QuestionKeys == [r \in 1..Len(QuestionRequests) |-> keyOf("question", r)]
cacheKey(op, r) == IF op = "fields" THEN FieldKeys[r] ELSE QuestionKeys[r]

fallbackOf(op, r) ==
    IF op = "fields" THEN fallbackFieldAnalysis(FieldRequests[r].fields)
    ELSE fallbackQuestionAnalysis(QuestionRequests[r].questionText)

FieldFallbacks == [r \in 1..Len(FieldRequests) |-> fallbackOf("fields", r)]
QuestionFallbacks == [r \in 1..Len(QuestionRequests) |-> fallbackOf("question", r)]
fallback(op, r) == IF op = "fields" THEN FieldFallbacks[r] ELSE QuestionFallbacks[r]

parseOf(op, r, response) ==
    IF op = "fields" THEN parseFieldAnalysisResponse(response, FieldRequests[r].fields)
    ELSE parseQuestionAnalysisResponse(response)

cacheName(op) == IF op = "fields" THEN "fieldAnalysis" ELSE "questionAnalysis"

(***************************************************************************)
(* Time.  Date.now() counts from ClockOrigin, more than a day after the    *)
(* zero that RATE_LIMIT starts from, as the epoch is for any page load.    *)
(* The clock advances by steps of 1 ms, minInterval and the rest of a day. *)
(***************************************************************************)
ClockOrigin == 2 * DayMs
Deltas == {1, minInterval, DayMs - minInterval}

(***************************************************************************)
(* The state the program is in after earlier requests, each answered by    *)
(* the provider, made minInterval apart from ClockOrigin on, each for a    *)
(* batch (or a question) of its own.  priorEntries(op, n, m) is the cache  *)
(* the calls n+1..m of operation op leave behind, oldest first.            *)
(***************************************************************************)
priorTime(j) == ClockOrigin + (j - 1) * minInterval

priorFields(j) == <<[type |-> "text", name |-> "q" \o NumToStr(j)]>>
priorQuestion(j) == "Question " \o NumToStr(j) \o "?"

priorEntry(op, j) ==
    IF op = "fields"
    THEN [key |-> generateFieldCacheKey(priorFields(j), <<>>).key,
          data |-> parseFieldAnalysisResponse(FieldJson, priorFields(j)),
          timestamp |-> priorTime(j), src |-> <<"prior", j>>]
    ELSE [key |-> generateQuestionCacheKey(priorQuestion(j), <<>>).key,
          data |-> parseQuestionAnalysisResponse(QuestionJson),
          timestamp |-> priorTime(j), src |-> <<"prior", j>>]

RECURSIVE priorEntries(_, _, _)
priorEntries(op, n, m) ==
    IF n >= m THEN <<>> ELSE <<priorEntry(op, n + 1)>> \o priorEntries(op, n + 1, m)

\* A busy day: requestsPerDay - 1 calls so far, then clearCache().
BusyDay ==
    [now |-> priorTime(requestsPerDay - 1) + minInterval,
     RATE_LIMIT |-> [lastRequestTime |-> priorTime(requestsPerDay - 1),
                     dailyUsage |-> requestsPerDay - 1, dailyResetTime |-> ClockOrigin],
     CACHE |-> [fieldAnalysis |-> <<>>, questionAnalysis |-> <<>>]]

\* maxSize - 1 calls of operation op so far: its cache is one short of full.
NearlyFull(op) ==
    [now |-> priorTime(maxSize - 1) + minInterval,
     RATE_LIMIT |-> [lastRequestTime |-> priorTime(maxSize - 1),
                     dailyUsage |-> maxSize - 1, dailyResetTime |-> ClockOrigin],
     CACHE |-> [[fieldAnalysis |-> <<>>, questionAnalysis |-> <<>>]
                  EXCEPT ![cacheName(op)] = priorEntries(op, 0, maxSize - 1)]]

\* The page has just loaded.
Cold ==
    [now |-> ClockOrigin,
     RATE_LIMIT |-> [lastRequestTime |-> 0, dailyUsage |-> 0, dailyResetTime |-> 0],
     CACHE |-> [fieldAnalysis |-> <<>>, questionAnalysis |-> <<>>]]

(***************************************************************************)
(* A session fixes the inputs of one run: the state it starts in, the      *)
(* requests its callers make, whether a caller may call while another call *)
(* is pending, the steps its clock takes, and what the provider does with  *)
(* a remote call (the ways it fails and the answers it gives).             *)
(***************************************************************************)
Failures == {"transport", "notOk", "badBody"}
Answers == {"json", "prose"}

\* window.StorageUtils as getApiKey finds it: absent; getSettings() rejects
\* ("throws"); it resolves to undefined ("nullSettings"), to settings without
\* a key ("noKey"), with an empty key ("emptyKey") or with a key ("stored").
Storages == {"absent", "throws", "nullSettings", "noKey", "emptyKey", "stored"}
DEFAULT_API_KEY == "DEFAULT_API_KEY"
StoredKey == "stored key"

storageOf(s) == IF "storage" \in DOMAIN s THEN s.storage ELSE "absent"

\* await window.StorageUtils.getSettings()
getSettings(storage) ==
    [threw |-> storage = "throws",
     settings |-> IF storage = "stored" THEN [geminiApiKey |-> StoredKey]
                  ELSE IF storage = "emptyKey" THEN [geminiApiKey |-> ""]
                  ELSE IF storage = "noKey" THEN [autofill |-> "on"]
                  ELSE Null]

\* settings.geminiApiKey || DEFAULT_API_KEY; reading a property of undefined throws
settingsKey(got) ==
    IF got.threw \/ got.settings = Null THEN [threw |-> TRUE, key |-> ""]
    ELSE [threw |-> FALSE, key |-> orDefault(got.settings, "geminiApiKey", "", DEFAULT_API_KEY)]

\* The try block of getApiKey.
getApiKeyTry(storage) ==
    IF storage = "absent" THEN [threw |-> FALSE, key |-> DEFAULT_API_KEY]
    ELSE settingsKey(getSettings(storage))

\* The catch block of getApiKey.
caughtKey(tried) == IF tried.threw THEN [threw |-> FALSE, key |-> DEFAULT_API_KEY] ELSE tried

\* A faulty getApiKey without its catch block.
getApiKeyUncaught(storage) == getApiKeyTry(storage)

\* getApiKey()
getApiKey(storage) == caughtKey(getApiKeyTry(storage))

Sessions == {
    [start |-> "cold", workload |-> {<<"fields", 1>>, <<"fields", 2>>},
     concurrent |-> FALSE, deltas |-> Deltas, provider |-> Failures \cup Answers],
    [start |-> "cold", workload |-> {<<"fields", 3>>, <<"fields", 4>>},
     concurrent |-> FALSE, deltas |-> {minInterval}, provider |-> Failures \cup Answers],
    [start |-> "cold", workload |-> {<<"question", 1>>, <<"question", 2>>},
     concurrent |-> FALSE, deltas |-> Deltas, provider |-> Failures \cup Answers],
    [start |-> "cold", workload |-> {<<"fields", 1>>, <<"question", 1>>},
     concurrent |-> TRUE, deltas |-> {minInterval}, provider |-> {"transport", "json"}],
    [start |-> "cold", workload |-> {<<"fields", 2>>},
     concurrent |-> FALSE, deltas |-> {minInterval}, provider |-> {"loose"}],
    [start |-> "busy", workload |-> {<<"fields", 1>>},
     concurrent |-> TRUE, deltas |-> {minInterval, DayMs - minInterval},
     provider |-> {"json"}],
    [start |-> "busy", workload |-> {<<"question", 1>>},
     concurrent |-> TRUE, deltas |-> {minInterval, DayMs - minInterval},
     provider |-> {"json"}],
    [start |-> "fullFields", workload |-> {<<"fields", 1>>, <<"fields", 3>>},
     concurrent |-> TRUE, deltas |-> {}, provider |-> {"json"}],
    [start |-> "fullQuestions", workload |-> {<<"question", 1>>, <<"question", 2>>},
     concurrent |-> TRUE, deltas |-> {}, provider |-> {"json"}] }
    \cup
    { [start |-> "cold", workload |-> {<<"question", 1>>, <<"question", 3>>},
       concurrent |-> FALSE, deltas |-> {minInterval}, provider |-> {"json"}] }
    \cup
    { [start |-> "cold", workload |-> {<<"question", 2>>},
       concurrent |-> FALSE, deltas |-> {minInterval}, provider |-> {"zero"}] }
    \cup
    { [start |-> "cold", workload |-> {<<"fields", 1>>, <<"question", 1>>},
       concurrent |-> FALSE, deltas |-> {minInterval}, provider |-> {"json"},
       storage |-> st] : st \in Storages \ {"absent"} }

\* The invocations that may run in a session.
Callers(s) == IF s.concurrent THEN 1..NumInvocations ELSE {1}

startState(start) ==
    IF start = "cold" THEN Cold
    ELSE IF start = "busy" THEN BusyDay
    ELSE IF start = "fullFields" THEN NearlyFull("fields")
    ELSE NearlyFull("question")

Idle == [pc |-> "idle"]

(***************************************************************************)
(* chrome.storage.local as the service worker's initializeStorage leaves   *)
(* it on installation: the default profile, the default templates and the  *)
(* settings; there is no applicationLogs key yet.                          *)
(***************************************************************************)
Installed ==
    [profiles |-> [default |-> [id |-> "default", name |-> "Default Profile",
                                created |-> "Date.now()", lastModified |-> "Date.now()"]],
     templates |-> [whyInterested |-> "I am interested in this position because...",
                    whyQualified |-> "I am qualified for this role due to my...",
                    careerGoals |-> "My career goals include...",
                    greatestStrength |-> "My greatest strength is...",
                    greatestWeakness |-> "An area I'm working to improve is...",
                    workStyle |-> "I work best in environments that...",
                    teamwork |-> "I approach teamwork by...",
                    leadership |-> "My leadership style focuses on...",
                    challenges |-> "When facing challenges, I...",
                    motivation |-> "What motivates me most is..."],
     settings |-> [autoFillEnabled |-> TRUE, screenshotEnabled |-> TRUE, debugMode |-> FALSE,
                   fillDelay |-> 500, geminiApiKey |-> DEFAULT_API_KEY,
                   lastUpdated |-> "Date.now()"]]

Init ==
    /\ session \in Sessions
    /\ storageLocal = Installed /\ handlers = <<>>
    /\ \E st \in {startState(session.start)} :
           now = st.now /\ RATE_LIMIT = st.RATE_LIMIT /\ CACHE = st.CACHE
    /\ calls = [i \in 1..NumInvocations |-> Idle]
    /\ ticks = [d \in Deltas |-> 0]
    /\ dailyDenial = "none"
    /\ formFields = <<>>
    /\ answer = Null
    /\ stageCalls = <<>>

(***************************************************************************)
(* analyzeFields and analyzeQuestion.  An invocation runs without          *)
(* interruption from its call to the await of the remote call (Start) and  *)
(* from the provider's answer to its own return (Respond or Fail).         *)
(* Two more suspensions are not steps of their own.  getApiKey, awaited    *)
(* before fetch, reads the stored settings only, so it is taken together   *)
(* with the start.  Between updateRateLimit() in makeGeminiRequest and the *)
(* cache write in the continuation lie promise reactions only: what can    *)
(* run in between is another invocation's start, which the limiter then    *)
(* denies before and after the write alike, or a step on the other of      *)
(* RATE_LIMIT and CACHE, which commutes.                                   *)
(***************************************************************************)
\* The synchronous start of analyzeFields / analyzeQuestion at Date.now() = t:
\* the limiter state it leaves, how it ends ("denied", "threw", "hit" with
\* the cached data returned, or "miss": the remote call is issued).
\* A faulty start: the result of canMakeRequest is not looked at.
startOutcomeUngated(chk, k, cachedResult, t) ==
    IF k.threw THEN "threw"
    ELSE IF cachedResult # Null /\ ~isCacheExpired(cachedResult, t) THEN "hit"
    ELSE "miss"

\* How the synchronous start ends.
startOutcome(chk, k, cachedResult, t) ==
    IF ~chk.granted THEN "denied"
    ELSE IF k.threw THEN "threw"
    ELSE IF cachedResult # Null /\ ~isCacheExpired(cachedResult, t) THEN "hit"
    ELSE "miss"

startResult(chk, outcome, cachedResult, fb) ==
    [rl |-> chk.rl, outcome |-> outcome,
     result |-> IF outcome = "hit" THEN cachedResult.data ELSE fb]

startLookup(chk, k, cachedResult, t, fb) ==
    startResult(chk, startOutcome(chk, k, cachedResult, t), cachedResult, fb)

startKeyed(chk, k, entries, t, fb) ==
    startLookup(chk, k, IF k.threw THEN Null ELSE cacheGet(entries, k.key), t, fb)

analyzeStart(op, r, rl, cache, t) ==
    startKeyed(canMakeRequest(rl, t), cacheKey(op, r), cache[cacheName(op)], t,
               fallback(op, r))

\* The history after a canMakeRequest() at t in limiter state rl.
dailyDenialAfter(rl, t, before) ==
    IF dailyReset(rl, t) # rl
    THEN (IF before = "denied" /\ withinLimits(dailyReset(rl, t), t)
          THEN "readmitted" ELSE "none")
    ELSE IF rl.dailyUsage >= requestsPerDay THEN "denied"
    ELSE before

\* A faulty return: the promise of the invocation rejects, with no result.
DoneRejected(op, r, outcome, result) ==
    [pc |-> "rejected", op |-> op, req |-> r, outcome |-> outcome]

Done(op, r, outcome, result) ==
    [pc |-> "done", op |-> op, req |-> r, outcome |-> outcome, result |-> result]

\* makeGeminiRequest up to its fetch: `await getApiKey()` is inside the try of
\* analyzeFields / analyzeQuestion, whose catch returns the fallback.
remoteCall(op, r, apiKey) ==
    IF apiKey.threw THEN Done(op, r, "storage", fallback(op, r))
    ELSE [pc |-> "fetch", op |-> op, req |-> r, apiKey |-> apiKey.key]

Start(i, op, r) ==
    /\ calls[i].pc = "idle"
    /\ i \in Callers(session)
    /\ <<op, r>> \in session.workload
    /\ \E st \in {analyzeStart(op, r, RATE_LIMIT, CACHE, now)} :
       /\ RATE_LIMIT' = st.rl
       /\ calls' = [calls EXCEPT ![i] =
                      IF st.outcome = "miss"
                      THEN remoteCall(op, r, getApiKey(storageOf(session)))
                      ELSE Done(op, r, st.outcome, st.result)]
    /\ dailyDenial' = dailyDenialAfter(RATE_LIMIT, now, dailyDenial)
    /\ UNCHANGED <<now, CACHE, ticks, session, storageLocal, handlers, formFields, answer,
                 stageCalls>>

\* The remote call fails: fetch rejects ("transport"), the status is not OK
\* ("notOk"), or response.json() of an OK response rejects ("badBody").  The
\* catch block returns the fallback.
Fail(i, outcome) ==
    /\ calls[i].pc = "fetch"
    /\ outcome \in session.provider
    /\ calls' = [calls EXCEPT ![i] =
                   Done(calls[i].op, calls[i].req, outcome,
                        fallback(calls[i].op, calls[i].req))]
    /\ UNCHANGED <<now, RATE_LIMIT, CACHE, ticks, dailyDenial, session, storageLocal, handlers,
                 formFields, answer, stageCalls>>

\* CACHE.x.set(cacheKey, {data, timestamp: Date.now()}); cleanupCache(CACHE.x)
cacheWrite(cache, key, data, t, src) ==
    cleanupCache(cacheSet(cache, [key |-> key, data |-> data, timestamp |-> t, src |-> src]))

\* response.json() yields the provider's answer: updateRateLimit(), then the
\* continuation parses the answer, caches the analysis and returns it.
Respond(i, response) ==
    /\ calls[i].pc = "fetch"
    /\ kindOf(response) \in session.provider
    /\ \E op \in {calls[i].op}, r \in {calls[i].req} :
       \E analysis \in {parseOf(op, r, response)} :
          /\ RATE_LIMIT' = updateRateLimit(RATE_LIMIT, now)
          /\ CACHE' = [CACHE EXCEPT ![cacheName(op)] =
                          cacheWrite(@, cacheKey(op, r).key, analysis, now, <<op, r>>)]
          /\ calls' = [calls EXCEPT ![i] = Done(op, r, "ok", analysis)]
    /\ UNCHANGED <<now, ticks, dailyDenial, session, storageLocal, handlers, formFields, answer,
                 stageCalls>>

\* The caller takes the result; the invocation is over.
Return(i) ==
    /\ calls[i].pc = "done"
    /\ calls' = [calls EXCEPT ![i] = Idle]
    /\ UNCHANGED <<now, RATE_LIMIT, CACHE, ticks, dailyDenial, session, storageLocal, handlers,
                 formFields, answer, stageCalls>>

\* GeminiClient.canMakeRequest() called through the public API
CanMakeRequest ==
    /\ RATE_LIMIT' = canMakeRequest(RATE_LIMIT, now).rl
    /\ dailyDenial' = dailyDenialAfter(RATE_LIMIT, now, dailyDenial)
    /\ UNCHANGED <<now, CACHE, calls, ticks, session, storageLocal, handlers, formFields, answer,
                 stageCalls>>

\* GeminiClient.clearCache()
ClearCache ==
    /\ CACHE' = [fieldAnalysis |-> <<>>, questionAnalysis |-> <<>>]
    /\ UNCHANGED <<now, RATE_LIMIT, calls, ticks, dailyDenial, session, storageLocal, handlers,
                 formFields, answer, stageCalls>>

\* GeminiClient.getUsageStats(): the record it returns
getUsageStats(rl, cache) ==
    [dailyUsage |-> rl.dailyUsage, dailyLimit |-> requestsPerDay,
     remainingToday |-> requestsPerDay - rl.dailyUsage,
     cacheStats |-> [fieldAnalysisSize |-> Len(cache.fieldAnalysis),
                     questionAnalysisSize |-> Len(cache.questionAnalysis),
                     maxSize |-> maxSize],
     lastRequestTime |-> rl.lastRequestTime]

GetUsageStats ==
    /\ getUsageStats(RATE_LIMIT, CACHE).dailyLimit = requestsPerDay
    /\ UNCHANGED vars

\* Time passes.
Tick(d) ==
    /\ d \in session.deltas
    /\ ticks[d] < MaxTicksPerDelta
    /\ now' = now + d
    /\ ticks' = [ticks EXCEPT ![d] = @ + 1]
    /\ UNCHANGED <<RATE_LIMIT, CACHE, calls, dailyDenial, session, storageLocal, handlers,
                 formFields, answer, stageCalls>>

Next ==
    \/ \E i \in 1..NumInvocations, op \in Ops :
           \E r \in 1..Len(Requests(op)) : Start(i, op, r)
    \/ \E i \in 1..NumInvocations : Fail(i, "transport")
    \/ \E i \in 1..NumInvocations : Fail(i, "notOk")
    \/ \E i \in 1..NumInvocations : Fail(i, "badBody")
    \/ \E i \in 1..NumInvocations :
           \E response \in (IF calls[i].pc = "fetch" /\ calls[i].op = "question"
                            THEN QuestionResponses ELSE FieldResponses) :
               Respond(i, response)
    \/ \E i \in 1..NumInvocations : Return(i)
    \/ CanMakeRequest
    \/ ClearCache
    \/ GetUsageStats
    \/ \E d \in Deltas : Tick(d)

Spec == Init /\ [][Next]_vars

\* The remote call of invocation i completes or fails.
RemoteEnds(i) ==
    \/ \E outcome \in Failures : Fail(i, outcome)
    \/ \E response \in (IF calls[i].pc = "fetch" /\ calls[i].op = "question"
                        THEN QuestionResponses ELSE FieldResponses) :
           Respond(i, response)

\* An invocation awaits fetch() and response.json(): the browser settles both
\* promises, so the remote call of an invocation at its await ends.  This is
\* WF_vars(RemoteEnds(i)) written out, []<>~ENABLED <<A>>_vars \/ []<><<A>>_vars,
\* with the enabling condition of RemoteEnds(i), which is that invocation i is
\* at its await, in the place of ENABLED.
LiveSpec ==
    Spec /\ \A i \in 1..NumInvocations :
               \/ []<>(calls[i].pc # "fetch")
               \/ []<><<RemoteEnds(i)>>_vars

(***************************************************************************)
(* Part II models FieldMapper (src/src/lib/field-mapper/field-mapper.js)   *)
(* as the content script uses it: analyzeFormFields builds a descriptor    *)
(* for each form control of the page and hands them to mapFields.          *)
(*                                                                         *)
(* A DOM element is [tag, attrs, ancestors]: attrs maps the attributes the *)
(* element has to their values, ancestors is the set of class names of the *)
(* elements it lies in.  A selector of the rule table is [tag, conds, id,  *)
(* within]: a type selector ("" for none), attribute conditions, an id     *)
(* selector ("" for none) and the class of an ancestor ("" for none).      *)
(***************************************************************************)
Has(attr, value) == [attr |-> attr, op |-> "*=", value |-> value]
Is(attr, value) == [attr |-> attr, op |-> "=", value |-> value]
Sel(tag, conds) == [tag |-> tag, conds |-> conds, id |-> "", within |-> ""]
ById(id) == [tag |-> "", conds |-> <<>>, id |-> id, within |-> ""]
Within(class, sel) == [sel EXCEPT !.within = class]

Automation(v) == Sel("", <<Has("data-automation-id", v)>>)
InputName(v) == Sel("input", <<Has("name", v)>>)
InputNamed(v) == Sel("input", <<Is("name", v)>>)
InputType(v) == Sel("input", <<Is("type", v)>>)
SelectName(v) == Sel("select", <<Has("name", v)>>)

ATS_FIELD_RULES ==
    [workday |-> <<
        [purpose |-> "firstName", selectors |-> <<
            Automation("firstName"), Automation("first_name"),
            InputName("firstName"), InputName("first_name")>>],
        [purpose |-> "lastName", selectors |-> <<
            Automation("lastName"), Automation("last_name"),
            InputName("lastName"), InputName("last_name")>>],
        [purpose |-> "email", selectors |-> <<
            Automation("email"), InputName("email"), InputType("email")>>],
        [purpose |-> "phone", selectors |-> <<
            Automation("phone"), InputName("phone"), InputType("tel")>>],
        [purpose |-> "address", selectors |-> <<Automation("address"), InputName("address")>>],
        [purpose |-> "city", selectors |-> <<Automation("city"), InputName("city")>>],
        [purpose |-> "state", selectors |-> <<
            Automation("state"), Automation("province"),
            SelectName("state"), SelectName("province")>>],
        [purpose |-> "zipCode", selectors |-> <<
            Automation("zip"), Automation("postal"), InputName("zip"), InputName("postal")>>],
        [purpose |-> "country", selectors |-> <<Automation("country"), SelectName("country")>>] >>,
     greenhouse |-> <<
        [purpose |-> "firstName", selectors |-> <<
            InputNamed("job_application[first_name]"), InputName("first_name"),
            ById("first_name")>>],
        [purpose |-> "lastName", selectors |-> <<
            InputNamed("job_application[last_name]"), InputName("last_name"),
            ById("last_name")>>],
        [purpose |-> "email", selectors |-> <<
            InputNamed("job_application[email]"), InputName("email"), InputType("email")>>],
        [purpose |-> "phone", selectors |-> <<
            InputNamed("job_application[phone]"), InputName("phone"), InputType("tel")>>],
        [purpose |-> "resumeUpload", selectors |-> <<
            InputNamed("job_application[resume]"),
            Sel("input", <<Is("type", "file"), Has("name", "resume")>>)>>],
        [purpose |-> "coverLetterUpload", selectors |-> <<
            InputNamed("job_application[cover_letter]"),
            Sel("input", <<Is("type", "file"), Has("name", "cover")>>)>>] >>,
     lever |-> <<
        [purpose |-> "firstName", selectors |-> <<
            InputNamed("name"), InputName("first"),
            Within("application-question", Sel("input", <<Has("placeholder", "First")>>))>>],
        [purpose |-> "lastName", selectors |-> <<
            InputName("last"),
            Within("application-question", Sel("input", <<Has("placeholder", "Last")>>))>>],
        [purpose |-> "email", selectors |-> <<InputNamed("email"), InputType("email")>>],
        [purpose |-> "phone", selectors |-> <<InputNamed("phone"), InputType("tel")>>],
        [purpose |-> "resumeUpload", selectors |-> <<InputNamed("resume"), InputType("file")>>] >>,
     icims |-> <<
        [purpose |-> "firstName", selectors |-> <<
            InputName("firstName"), Sel("input", <<Has("id", "firstName")>>)>>],
        [purpose |-> "lastName", selectors |-> <<
            InputName("lastName"), Sel("input", <<Has("id", "lastName")>>)>>],
        [purpose |-> "email", selectors |-> <<InputName("email"), InputType("email")>>],
        [purpose |-> "phone", selectors |-> <<InputName("phone"), InputType("tel")>>] >>,
     taleo |-> <<
        [purpose |-> "firstName", selectors |-> <<
            InputName("firstName"), InputName("first_name")>>],
        [purpose |-> "lastName", selectors |-> <<
            InputName("lastName"), InputName("last_name")>>],
        [purpose |-> "email", selectors |-> <<InputName("email")>>],
        [purpose |-> "phone", selectors |-> <<InputName("phone")>>] >>]


HEURISTIC_PATTERNS == <<
    [purpose |-> "firstName",
     names |-> <<"firstname", "first_name", "first-name", "fname", "forename", "givenname">>,
     ids |-> <<"firstname", "first_name", "first-name", "fname">>,
     placeholders |-> <<"first name", "given name", "forename">>,
     labels |-> <<"first name", "given name", "forename", "pr" \o EAcute \o "nom">>,
     types |-> <<"text">>],
    [purpose |-> "lastName",
     names |-> <<"lastname", "last_name", "last-name", "lname", "surname", "familyname">>,
     ids |-> <<"lastname", "last_name", "last-name", "lname">>,
     placeholders |-> <<"last name", "surname", "family name">>,
     labels |-> <<"last name", "surname", "family name", "nom de famille">>,
     types |-> <<"text">>],
    [purpose |-> "fullName",
     names |-> <<"name", "full_name", "fullname", "full-name", "completename">>,
     ids |-> <<"name", "full_name", "fullname">>,
     placeholders |-> <<"full name", "your name", "name">>,
     labels |-> <<"full name", "name", "your name", "nom complet">>,
     types |-> <<"text">>],
    [purpose |-> "email",
     names |-> <<"email", "email_address", "email-address", "emailaddress", "mail">>,
     ids |-> <<"email", "email_address", "email-address">>,
     placeholders |-> <<"email", "email address", "your email", "e-mail">>,
     labels |-> <<"email", "email address", "e-mail address">>,
     types |-> <<"email", "text">>],
    [purpose |-> "phone",
     names |-> <<"phone", "phone_number", "phone-number", "phonenumber", "telephone",
                 "mobile", "cell">>,
     ids |-> <<"phone", "phone_number", "telephone">>,
     placeholders |-> <<"phone", "phone number", "telephone", "mobile", "cell phone">>,
     labels |-> <<"phone", "phone number", "telephone", "mobile number">>,
     types |-> <<"tel", "text">>],
    [purpose |-> "address",
     names |-> <<"address", "street_address", "street-address", "streetaddress", "addr">>,
     ids |-> <<"address", "street_address", "street-address">>,
     placeholders |-> <<"address", "street address", "your address">>,
     labels |-> <<"address", "street address", "home address">>,
     types |-> <<"text">>],
    [purpose |-> "city",
     names |-> <<"city", "town", "locality">>,
     ids |-> <<"city", "town">>,
     placeholders |-> <<"city", "town">>,
     labels |-> <<"city", "town", "locality">>,
     types |-> <<"text">>],
    [purpose |-> "state",
     names |-> <<"state", "province", "region", "state_province">>,
     ids |-> <<"state", "province", "region">>,
     placeholders |-> <<"state", "province", "region">>,
     labels |-> <<"state", "province", "state/province", "region">>,
     types |-> <<"text", "select-one">>],
    [purpose |-> "zipCode",
     names |-> <<"zip", "zipcode", "zip_code", "postal", "postalcode", "postal_code">>,
     ids |-> <<"zip", "zipcode", "postal">>,
     placeholders |-> <<"zip", "zip code", "postal code">>,
     labels |-> <<"zip code", "postal code", "zip">>,
     types |-> <<"text">>],
    [purpose |-> "country",
     names |-> <<"country", "nation">>,
     ids |-> <<"country">>,
     placeholders |-> <<"country">>,
     labels |-> <<"country", "nation">>,
     types |-> <<"select-one", "text">>],
    [purpose |-> "currentTitle",
     names |-> <<"title", "job_title", "position", "current_title", "role">>,
     ids |-> <<"title", "job_title", "position">>,
     placeholders |-> <<"job title", "current title", "position", "role">>,
     labels |-> <<"job title", "current title", "position", "current position">>,
     types |-> <<"text">>],
    [purpose |-> "currentCompany",
     names |-> <<"company", "employer", "current_company", "organization">>,
     ids |-> <<"company", "employer">>,
     placeholders |-> <<"company", "employer", "current company">>,
     labels |-> <<"company", "employer", "current employer", "organization">>,
     types |-> <<"text">>],
    [purpose |-> "yearsExperience",
     names |-> <<"experience", "years_experience", "experience_years">>,
     ids |-> <<"experience", "years_experience">>,
     placeholders |-> <<"years of experience", "experience">>,
     labels |-> <<"years of experience", "experience", "work experience">>,
     types |-> <<"number", "text", "select-one">>],
    [purpose |-> "desiredSalary",
     names |-> <<"salary", "desired_salary", "expected_salary", "compensation">>,
     ids |-> <<"salary", "desired_salary">>,
     placeholders |-> <<"desired salary", "expected salary", "salary">>,
     labels |-> <<"desired salary", "expected salary", "salary expectations">>,
     types |-> <<"number", "text">>],
    [purpose |-> "availableStartDate",
     names |-> <<"start_date", "available_date", "availability">>,
     ids |-> <<"start_date", "available_date">>,
     placeholders |-> <<"start date", "available date", "when can you start">>,
     labels |-> <<"start date", "availability", "when can you start">>,
     types |-> <<"date", "text">>],
    [purpose |-> "resumeUpload",
     names |-> <<"resume", "cv", "curriculum">>,
     ids |-> <<"resume", "cv">>,
     placeholders |-> <<>>,
     labels |-> <<"resume", "cv", "curriculum vitae">>,
     types |-> <<"file">>],
    [purpose |-> "coverLetterUpload",
     names |-> <<"cover_letter", "coverletter", "cover">>,
     ids |-> <<"cover_letter", "coverletter">>,
     placeholders |-> <<>>,
     labels |-> <<"cover letter", "covering letter">>,
     types |-> <<"file">>] >>

\* FieldMapper's own QUESTION_PATTERNS (field-mapper.js 299-335); a pattern
\* /w1.*w2/i is the sequence of its literal words, as in the answer library.
FieldMapper_QUESTION_PATTERNS == <<
    [purpose |-> "whyInterested", patterns |-> <<
        <<"why", "interested">>, <<"why", "want", "work">>, <<"why", "apply">>,
        <<"why", "company">>, <<"motivation", "position">> >>],
    [purpose |-> "whyQualified", patterns |-> <<
        <<"why", "qualified">>, <<"why", "right", "candidate">>,
        <<"what", "makes", "qualified">>, <<"relevant", "experience">> >>],
    [purpose |-> "careerGoals", patterns |-> <<
        <<"career", "goals">>, <<"professional", "goals">>, <<"future", "plans">>,
        <<"where", "see", "yourself">> >>],
    [purpose |-> "greatestStrength", patterns |-> <<
        <<"greatest", "strength">>, <<"biggest", "strength">>, <<"key", "strength">>,
        <<"what", "strength">> >>],
    [purpose |-> "greatestWeakness", patterns |-> <<
        <<"greatest", "weakness">>, <<"biggest", "weakness">>, <<"area", "improvement">>,
        <<"what", "weakness">> >>] >>


\* The least element of a set of positive numbers, or 0 when it is empty.
Least(S) == IF S = {} THEN 0 ELSE CHOOSE k \in S : \A m \in S : k <= m

\* Math.min on confidences
RatMin(p, q) == IF RatLT(q, p) THEN q ELSE p

\* element.type: the type attribute of an input (text when it has none)
elementType(el) ==
    IF el.tag = "select" THEN "select-one"
    ELSE IF el.tag = "textarea" THEN "textarea"
    ELSE IF "type" \in DOMAIN el.attrs THEN el.attrs["type"] ELSE "text"

\* element.name || '' and the like: the attribute's value, '' when absent
attrOrEmpty(el, attr) == IF attr \in DOMAIN el.attrs THEN el.attrs[attr] ELSE ""

\* An attribute condition [attr="v"] or [attr*="v"] on an element
condHolds(el, c) ==
    /\ c.attr \in DOMAIN el.attrs
    /\ IF c.op = "=" THEN el.attrs[c.attr] = c.value
       ELSE includes(el.attrs[c.attr], c.value)

\* Element.prototype.matches(selector)
matches(el, selector) ==
    /\ selector.tag = "" \/ selector.tag = el.tag
    /\ \A i \in 1..Len(selector.conds) : condHolds(el, selector.conds[i])
    /\ selector.id = "" \/ ("id" \in DOMAIN el.attrs /\ el.attrs["id"] = selector.id)
    /\ selector.within = "" \/ selector.within \in el.ancestors

\* The value the first attribute condition on attr of a selector compares
\* with ("" when it has none): what the group of selector.match(/\[attr[*^$]?=
\* ["']([^"']+)["']\]/) holds, whatever the operator of the condition is.
RECURSIVE attributeMatch(_, _)
attributeMatch(conds, attr) ==
    IF conds = <<>> THEN ""
    ELSE IF Head(conds).attr = attr THEN Head(conds).value
    ELSE attributeMatch(Tail(conds), attr)

\* field.element is an Element of the document.  The element of a descriptor
\* that was copied as JSON is a plain object ({}) without matches() and
\* getAttribute().
isElement(field) == "element" \in DOMAIN field /\ "tag" \in DOMAIN field.element

\* The try block of matchesSelector throws: field.element is truthy and has
\* no matches().  (Every selector of ATS_FIELD_RULES is valid CSS, so neither
\* matches() nor querySelectorAll() throws on an Element or without element.)
tryThrows(field) == "element" \in DOMAIN field /\ ~isElement(field)

\* nameMatch && field.name.includes(nameMatch[1])
nameIncludes(field, selector) ==
    /\ attributeMatch(selector.conds, "name") # ""
    /\ includes(field.name, attributeMatch(selector.conds, "name"))

\* matchesSelectorFallback(field, selector): "true", "false", or "throws" when
\* field.name is undefined at a name condition or field.element has no
\* getAttribute() at a data-automation-id condition.
matchesSelectorFallback(field, selector) ==
    IF attributeMatch(selector.conds, "name") # "" /\ "name" \notin DOMAIN field
    THEN "throws"
    ELSE IF nameIncludes(field, selector) THEN "true"
    ELSE IF selector.id # "" /\ "id" \in DOMAIN field /\ field.id = selector.id THEN "true"
    ELSE IF attributeMatch(selector.conds, "data-automation-id") = ""
            \/ "element" \notin DOMAIN field
    THEN "false"
    ELSE IF ~isElement(field) THEN "throws"
    ELSE IF /\ "data-automation-id" \in DOMAIN field.element.attrs
            /\ includes(field.element.attrs["data-automation-id"],
                        attributeMatch(selector.conds, "data-automation-id"))
    THEN "true"
    ELSE "false"

\* matchesSelector(field, selector) returns true.  In the try block,
\* querySelectorAll(selector) holds field.element exactly when the element,
\* which is in the document, matches the selector; the catch block returns
\* what matchesSelectorFallback returns.
matchesSelector(field, selector) ==
    IF tryThrows(field) THEN matchesSelectorFallback(field, selector) = "true"
    ELSE "element" \in DOMAIN field /\ matches(field.element, selector)

\* matchesSelector(field, selector) throws: out of its catch block.
selectorThrows(field, selector) ==
    tryThrows(field) /\ matchesSelectorFallback(field, selector) = "throws"

\* The first purpose of the rules one of whose selectors the field matches.
firstRuleMatch(field, atsRules) ==
    Least({k \in 1..Len(atsRules) :
              \E j \in 1..Len(atsRules[k].selectors) :
                  matchesSelector(field, atsRules[k].selectors[j])})

rulePurpose(atsRules, k) == IF k = 0 THEN "unknown" ELSE atsRules[k].purpose

\* A faulty lookup that keeps going after a match: the last matching purpose.
mapFieldByATSLast(field, atsType) ==
    IF atsType \notin DOMAIN ATS_FIELD_RULES THEN "unknown"
    ELSE IF \A k \in 1..Len(ATS_FIELD_RULES[atsType]) :
               \A j \in 1..Len(ATS_FIELD_RULES[atsType][k].selectors) :
                   ~matchesSelector(field, ATS_FIELD_RULES[atsType][k].selectors[j])
    THEN "unknown"
    ELSE ATS_FIELD_RULES[atsType][
             CHOOSE k \in 1..Len(ATS_FIELD_RULES[atsType]) :
                /\ \E j \in 1..Len(ATS_FIELD_RULES[atsType][k].selectors) :
                      matchesSelector(field, ATS_FIELD_RULES[atsType][k].selectors[j])
                /\ \A m \in (k + 1)..Len(ATS_FIELD_RULES[atsType]) :
                      \A j \in 1..Len(ATS_FIELD_RULES[atsType][m].selectors) :
                          ~matchesSelector(field, ATS_FIELD_RULES[atsType][m].selectors[j])
         ].purpose

\* mapFieldByATS(field, atsType)
mapFieldByATS(field, atsType) ==
    IF atsType \notin DOMAIN ATS_FIELD_RULES THEN "unknown"
    ELSE rulePurpose(ATS_FIELD_RULES[atsType],
                     firstRuleMatch(field, ATS_FIELD_RULES[atsType]))

\* mapFieldByATS(field, atsType) throws: a selector throws that the loops
\* reach, none before it having matched.
mapFieldByATSThrows(field, atsType) ==
    /\ atsType \in DOMAIN ATS_FIELD_RULES
    /\ \E k \in 1..Len(ATS_FIELD_RULES[atsType]) :
         \E j \in 1..Len(ATS_FIELD_RULES[atsType][k].selectors) :
            /\ selectorThrows(field, ATS_FIELD_RULES[atsType][k].selectors[j])
            /\ \A m \in 1..(j - 1) :
                  ~matchesSelector(field, ATS_FIELD_RULES[atsType][k].selectors[m])
            /\ \A n \in 1..(k - 1) :
                  \A m \in 1..Len(ATS_FIELD_RULES[atsType][n].selectors) :
                     ~matchesSelector(field, ATS_FIELD_RULES[atsType][n].selectors[m])

\* `${field.name} ${field.id} ${field.placeholder} ${field.label}`.toLowerCase()
fieldTextOf(field) ==
    toLowerCase(templateStr(field, "name") \o " " \o templateStr(field, "id") \o " "
                  \o templateStr(field, "placeholder") \o " " \o templateStr(field, "label"))

\* patterns.filter(p => fieldText.includes(p.toLowerCase())).length
countIncluded(fieldText, patterns) ==
    Cardinality({i \in 1..Len(patterns) : includes(fieldText, toLowerCase(patterns[i]))})

\* score and maxScore of one purpose, as the loop body of mapFieldByHeuristics
\* adds them up (the ids of the table are not looked at).
scoreOf(fieldText, type, patterns) ==
    countIncluded(fieldText, patterns.names)
      + countIncluded(fieldText, patterns.placeholders)
      + countIncluded(fieldText, patterns.labels)
      + (IF \E i \in 1..Len(patterns.types) : patterns.types[i] = type THEN 1 ELSE 0)

\* A faulty maxScore: only the name predicates are counted.
maxScoreOfNames(patterns) == Len(patterns.names)

maxScoreOf(patterns) ==
    Len(patterns.names) + Len(patterns.placeholders) + Len(patterns.labels)
      + Len(patterns.types)

\* confidence = maxScore > 0 ? score / maxScore : 0
ratio(score, maxScore) == IF maxScore > 0 THEN Rat(score, maxScore) ELSE RatZero

heuristicConfidence(fieldText, type, patterns) ==
    ratio(scoreOf(fieldText, type, patterns), maxScoreOf(patterns))

\* The threshold of the heuristic stage: confidence > 0.3
overThreshold(confidence) == RatLT(Rat(3, 10), confidence)

\* What the loop returns when k is the first purpose over the threshold (0: none).
heuristicResult(fieldText, type, k) ==
    IF k = 0 THEN [purpose |-> "unknown", confidence |-> RatZero]
    ELSE [purpose |-> HEURISTIC_PATTERNS[k].purpose,
          confidence |-> RatMin(heuristicConfidence(fieldText, type, HEURISTIC_PATTERNS[k]),
                                Rat(4, 5))]

heuristicsFor(fieldText, type) ==
    heuristicResult(fieldText, type,
        Least({k \in 1..Len(HEURISTIC_PATTERNS) :
                  overThreshold(heuristicConfidence(fieldText, type, HEURISTIC_PATTERNS[k]))}))

\* mapFieldByHeuristics(field)
mapFieldByHeuristics(field) == heuristicsFor(fieldTextOf(field), templateStr(field, "type"))

questionPurpose(k) == IF k = 0 THEN "unknown" ELSE FieldMapper_QUESTION_PATTERNS[k].purpose

questionPatternFor(questionText) ==
    questionPurpose(
        Least({k \in 1..Len(FieldMapper_QUESTION_PATTERNS) :
                  \E j \in 1..Len(FieldMapper_QUESTION_PATTERNS[k].patterns) :
                      test(FieldMapper_QUESTION_PATTERNS[k].patterns[j], questionText)}))

\* mapFieldByQuestionPatterns(field)
mapFieldByQuestionPatterns(field) ==
    questionPatternFor(toLowerCase(templateStr(field, "label") \o " "
                                     \o templateStr(field, "placeholder")))


\* heuristicMapping !== 'unknown': mapFieldByHeuristics returns an object, and
\* an object is never strictly equal to a string.
differsFromUnknown(heuristicMapping) == TRUE

\* field.purpose || 'unknown'
purposeOrUnknown(field) ==
    IF "purpose" \in DOMAIN field /\ field.purpose # "" THEN field.purpose ELSE "unknown"

\* A faulty rule stage: the match is reported as a heuristic one.
byRuleAsHeuristic(atsMapping) ==
    [purpose |-> atsMapping, confidence |-> Rat(4, 5), mappingMethod |-> "heuristic"]

\* What mapFields sets on a field the rule table resolved.
byRule(atsMapping) ==
    [purpose |-> atsMapping, confidence |-> Rat(9, 10), mappingMethod |-> "ats-specific"]

\* The callback of fields.map in mapFields, given what the three mapping
\* functions return for the field.
mapFieldFrom(field, atsMapping, heuristicMapping, questionMapping) ==
    IF atsMapping # "unknown"
    THEN Merge(field, byRule(atsMapping))
    ELSE IF differsFromUnknown(heuristicMapping)
    THEN Merge(field, [purpose |-> heuristicMapping.purpose,
                       confidence |-> heuristicMapping.confidence,
                       mappingMethod |-> "heuristic"])
    ELSE IF questionMapping # "unknown"
    THEN Merge(field, [purpose |-> questionMapping, confidence |-> Rat(7, 10),
                       mappingMethod |-> "question-pattern"])
    ELSE Merge(field, [purpose |-> purposeOrUnknown(field), confidence |-> RatZero,
                       mappingMethod |-> "none", needsLLMAnalysis |-> TRUE])

\* A faulty callback: all three mapping functions are called for every field.
stagesOfEager(atsMapping, heuristicMapping) ==
    <<"mapFieldByATS", "mapFieldByHeuristics", "mapFieldByQuestionPatterns">>

\* The mapping functions the callback calls before it returns: each branch of
\* mapFieldFrom is entered after the calls made up to its test.
stagesOf(atsMapping, heuristicMapping) ==
    IF atsMapping # "unknown" THEN <<"mapFieldByATS">>
    ELSE IF differsFromUnknown(heuristicMapping)
    THEN <<"mapFieldByATS", "mapFieldByHeuristics">>
    ELSE <<"mapFieldByATS", "mapFieldByHeuristics", "mapFieldByQuestionPatterns">>

\* scheduleLLMAnalysis(llmFields): the fields that need LLM analysis are marked
\* for manual review.
scheduleLLMAnalysis(field) ==
    IF "needsLLMAnalysis" \in DOMAIN field /\ field.needsLLMAnalysis
    THEN Merge(field, [needsManualReview |-> TRUE])
    ELSE field

\* determineFieldPurpose(fieldInfo) of the content script, on the lower-cased text
determineFieldPurpose(text, type) ==
    IF includes(text, "first") /\ includes(text, "name") THEN "firstName"
    ELSE IF includes(text, "last") /\ includes(text, "name") THEN "lastName"
    ELSE IF includes(text, "full") /\ includes(text, "name") THEN "fullName"
    ELSE IF includes(text, "email") THEN "email"
    ELSE IF includes(text, "phone") THEN "phone"
    ELSE IF includes(text, "address") /\ ~includes(text, "email") THEN "address"
    ELSE IF includes(text, "city") THEN "city"
    ELSE IF includes(text, "state") \/ includes(text, "province") THEN "state"
    ELSE IF includes(text, "zip") \/ includes(text, "postal") THEN "zipCode"
    ELSE IF includes(text, "country") THEN "country"
    ELSE IF includes(text, "current")
            /\ (includes(text, "title") \/ includes(text, "position")) THEN "currentTitle"
    ELSE IF includes(text, "current") /\ includes(text, "company") THEN "currentCompany"
    ELSE IF includes(text, "experience") /\ includes(text, "year") THEN "yearsExperience"
    ELSE IF includes(text, "salary") THEN "desiredSalary"
    ELSE IF includes(text, "start") /\ includes(text, "date") THEN "availableStartDate"
    ELSE IF includes(text, "why") /\ includes(text, "interested") THEN "whyInterested"
    ELSE IF includes(text, "why") /\ includes(text, "qualified") THEN "whyQualified"
    ELSE IF includes(text, "cover") /\ includes(text, "letter") THEN "coverLetter"
    ELSE IF includes(text, "additional") /\ includes(text, "information")
         THEN "additionalInfo"
    ELSE IF type = "file"
         THEN (IF includes(text, "resume") \/ includes(text, "cv") THEN "resumeUpload"
               ELSE IF includes(text, "cover") /\ includes(text, "letter")
                    THEN "coverLetterUpload"
               ELSE "fileUpload")
    ELSE "unknown"

\* The descriptor analyzeField builds for a control, up to its purpose.  Its
\* properties required, value and options are not read by the mapper.
fieldInfoOf(element, label, formIndex, inputIndex) ==
    [element |-> element, formIndex |-> formIndex, inputIndex |-> inputIndex,
     type |-> elementType(element),
     name |-> attrOrEmpty(element, "name"), id |-> attrOrEmpty(element, "id"),
     placeholder |-> attrOrEmpty(element, "placeholder"), label |-> label]

withPurpose(fieldInfo) ==
    Merge(fieldInfo, [purpose |-> determineFieldPurpose(fieldTextOf(fieldInfo), fieldInfo.type)])

\* analyzeField(element, formIndex, inputIndex); label is what getFieldLabel
\* finds for the element in the page.
analyzeField(element, label, formIndex, inputIndex) ==
    withPurpose(fieldInfoOf(element, label, formIndex, inputIndex))


(***************************************************************************)
(* The inputs of Part II: the form controls of a page, each with the label *)
(* text getFieldLabel finds for it, and the platform the page is on.       *)
(***************************************************************************)
Input(attrs) == [tag |-> "input", attrs |-> attrs, ancestors |-> {}]
Textarea(attrs) == [tag |-> "textarea", attrs |-> attrs, ancestors |-> {}]

\* <input type="text" name="first_name"> labelled "First Name"
FirstNameControl ==
    [element |-> Input([type |-> "text", name |-> "first_name"]), label |-> "First Name"]
\* <input type="email" name="email">
EmailControl == [element |-> Input([type |-> "email", name |-> "email"]), label |-> ""]
CompanyControl ==
    [element |-> Input([type |-> "text", name |-> "company_name"]), label |-> "Company Name"]
CityControl ==
    [element |-> Input([type |-> "text", name |-> "city", placeholder |-> "City or town"]),
     label |-> "City / Town / Locality"]
InterestControl ==
    [element |-> Textarea([name |-> "q1"]), label |-> "Why are you interested in this role?"]
StrengthControl ==
    [element |-> Textarea([name |-> "q2"]), label |-> "What is your greatest strength?"]
PhoneControl == [element |-> Input([type |-> "tel", name |-> "phone"]), label |-> "Phone"]
ResumeControl == [element |-> Input([type |-> "file", name |-> "resume"]), label |-> "Resume/CV"]
\* <input type="text" data-automation-id="legalNameSection_firstName">
WorkdayNameControl ==
    [element |-> Input([type |-> "text"] @@ ("data-automation-id" :> "legalNameSection_firstName")),
     label |-> "First Name"]
\* <div class="application-question"><input placeholder="First name"></div>
LeverNameControl ==
    [element |-> [tag |-> "input", attrs |-> [placeholder |-> "First name"],
                  ancestors |-> {"application-question"}],
     label |-> ""]
StateControl ==
    [element |-> [tag |-> "select", attrs |-> [name |-> "state"], ancestors |-> {}],
     label |-> "State"]
\* <input> without attributes and without label text
BareControl == [element |-> Input([a \in {} |-> ""]), label |-> ""]
\* <input type="tel" name="email_or_phone">: selectors of two purposes match it
ContactControl ==
    [element |-> Input([type |-> "tel", name |-> "email_or_phone"]),
     label |-> "Email or phone"]

\* <textarea name="why_interested"> labelled "Question 1"
MotivationControl ==
    [element |-> Textarea([name |-> "why_interested"]), label |-> "Question 1"]

Controls ==
    {FirstNameControl, EmailControl, CompanyControl, CityControl, InterestControl,
     StrengthControl, PhoneControl, ResumeControl, WorkdayNameControl, LeverNameControl,
     StateControl, BareControl, ContactControl, MotivationControl}

Platforms == {"unknown", "workday", "greenhouse", "lever", "icims", "taleo"}

\* A page: its controls in document order, and the platform detected for it.
Pages ==
    {[atsType |-> a, controls |-> cs] :
        a \in Platforms, cs \in UNION {[1..n -> Controls] : n \in 1..MaxControls}}

(***************************************************************************)
(* The three mapping functions read the element, the text and type, and    *)
(* the label and placeholder of a descriptor; each is computed once for    *)
(* every such input the controls give rise to.                             *)
(***************************************************************************)
rawOf(control) == fieldInfoOf(control.element, control.label, 0, 0)

atsMappings ==
    [c \in Controls |-> [a \in Platforms |-> mapFieldByATS(rawOf(c), a)]]
heuristicMappings == [c \in Controls |-> mapFieldByHeuristics(rawOf(c))]
questionMappings == [c \in Controls |-> mapFieldByQuestionPatterns(rawOf(c))]
presetPurposes ==
    [c \in Controls |-> determineFieldPurpose(fieldTextOf(rawOf(c)), rawOf(c).type)]

\* The control a descriptor was built from.
controlOf(field) == [element |-> field.element, label |-> field.label]


mapFieldOf(field, control, atsType) ==
    mapFieldFrom(field, atsMappings[control][atsType], heuristicMappings[control],
                 questionMappings[control])

\* The mapping functions the callbacks of one mapFields call call, field by field.
stagesOfAll(fields, atsType) ==
    [i \in 1..Len(fields) |->
        stagesOf(atsMappings[controlOf(fields[i])][atsType],
                 heuristicMappings[controlOf(fields[i])])]

\* mapFields(fields, atsType): every field through the map callback, then
\* scheduleLLMAnalysis on those that need it.
mapFields(fields, atsType) ==
    [i \in 1..Len(fields) |->
        scheduleLLMAnalysis(mapFieldOf(fields[i], controlOf(fields[i]), atsType))]

\* The descriptors analyzeFormFields collects from the page's form.
collectFields(controls) ==
    [i \in 1..Len(controls) |->
        Merge(fieldInfoOf(controls[i].element, controls[i].label, 0, i - 1),
              [purpose |-> presetPurposes[controls[i]]])]

(***************************************************************************)
(* Descriptors handed to the public API that analyzeField did not build:   *)
(* copies whose element is a plain object, with or without the optional    *)
(* attributes, and descriptors without optional attributes or element.     *)
(***************************************************************************)
Detached == [detached |-> TRUE]
\* {element: {}, type: 'text', name: 'last_name', id: '', placeholder: '', label: ''}
LastNameCopy ==
    [element |-> Detached, type |-> "text", name |-> "last_name", id |-> "",
     placeholder |-> "", label |-> ""]
\* {element: {}, type: 'email', label: 'Email'}
EmailCopy == [element |-> Detached, type |-> "email", label |-> "Email"]
\* {element: <input type="email">, type: 'email'}
EmailBare == [element |-> Input([type |-> "email"]), type |-> "email"]
\* {type: 'text', label: 'City'}
CityLabelled == [type |-> "text", label |-> "City"]
Descriptors == {LastNameCopy, EmailCopy, EmailBare, CityLabelled}
DescriptorBatches == UNION {[1..n -> Descriptors] : n \in 1..MaxControls}

\* The map callback of mapFields on one descriptor
mapField(field, atsType) ==
    mapFieldFrom(field, mapFieldByATS(field, atsType), mapFieldByHeuristics(field),
                 mapFieldByQuestionPatterns(field))
descriptorThrows ==
    [d \in Descriptors |-> [a \in Platforms |-> mapFieldByATSThrows(d, a)]]
descriptorMappings ==
    [d \in Descriptors |->
        [a \in Platforms |->
            IF descriptorThrows[d][a] THEN d ELSE scheduleLLMAnalysis(mapField(d, a))]]
\* What a call of mapFields comes to: it throws what a callback throws, or
\* returns the mapped descriptors.
Thrown(fields) == [fields |-> fields, threw |-> TRUE]
Returned(fields, value) == [fields |-> fields, threw |-> FALSE, value |-> value]
mapFieldsOutcome(fields, atsType) ==
    IF \E i \in 1..Len(fields) : descriptorThrows[fields[i]][atsType]
    THEN Thrown(fields)
    ELSE Returned(fields, [i \in 1..Len(fields) |-> descriptorMappings[fields[i]][atsType]])

(***************************************************************************)
(* The content script on a page.  session holds the page.                  *)
(***************************************************************************)
MapperInit ==
    /\ session \in Pages
    /\ storageLocal = Installed /\ handlers = <<>>
    /\ formFields = <<>>
    /\ answer = Null
    /\ stageCalls = <<>>
    /\ now = Cold.now /\ RATE_LIMIT = Cold.RATE_LIMIT /\ CACHE = Cold.CACHE
    /\ calls = [i \in 1..NumInvocations |-> Idle]
    /\ ticks = [d \in Deltas |-> 0]
    /\ dailyDenial = "none"

\* analyzeFormFields(): formFields = FieldMapper.mapFields(formFields, atsType)
AnalyzeFormFields ==
    /\ formFields' = mapFields(collectFields(session.controls), session.atsType)
    /\ stageCalls' = stagesOfAll(collectFields(session.controls), session.atsType)
    /\ UNCHANGED <<now, RATE_LIMIT, CACHE, calls, ticks, dailyDenial, session,
                 storageLocal, handlers, answer>>

\* FieldMapper.mapFields called again on the descriptors it returned
MapFields ==
    /\ formFields # <<>>
    /\ formFields' = mapFields(formFields, session.atsType)
    /\ stageCalls' = stagesOfAll(formFields, session.atsType)
    /\ UNCHANGED <<now, RATE_LIMIT, CACHE, calls, ticks, dailyDenial, session,
                 storageLocal, handlers, answer>>

\* A direct call of one of the mapping functions of the public API on a
\* descriptor of the page.
Answer(fn, j, result) == [fn |-> fn, index |-> j, result |-> result]

MapFieldByATS(j) ==
    /\ j \in 1..Len(formFields)
    /\ answer' = Answer("mapFieldByATS", j,
                        atsMappings[controlOf(formFields[j])][session.atsType])
    /\ UNCHANGED <<now, RATE_LIMIT, CACHE, calls, ticks, dailyDenial, session,
                 storageLocal, handlers, formFields,
                 stageCalls>>

MapFieldByHeuristics(j) ==
    /\ j \in 1..Len(formFields)
    /\ answer' = Answer("mapFieldByHeuristics", j, heuristicMappings[controlOf(formFields[j])])
    /\ UNCHANGED <<now, RATE_LIMIT, CACHE, calls, ticks, dailyDenial, session,
                 storageLocal, handlers, formFields,
                 stageCalls>>

MapFieldByQuestionPatterns(j) ==
    /\ j \in 1..Len(formFields)
    /\ answer' = Answer("mapFieldByQuestionPatterns", j,
                        questionMappings[controlOf(formFields[j])])
    /\ UNCHANGED <<now, RATE_LIMIT, CACHE, calls, ticks, dailyDenial, session,
                 storageLocal, handlers, formFields,
                 stageCalls>>

\* FieldMapper.mapFields(fields, atsType) called on a batch of descriptors
MapDescriptors(fields) ==
    /\ answer' = Answer("mapFields", 0, mapFieldsOutcome(fields, session.atsType))
    /\ UNCHANGED <<now, RATE_LIMIT, CACHE, calls, ticks, dailyDenial, session,
                 storageLocal, handlers, formFields,
                 stageCalls>>
MapperNext ==
    \/ AnalyzeFormFields
    \/ \E fields \in DescriptorBatches : MapDescriptors(fields)
    \/ MapFields
    \/ \E j \in 1..MaxControls : MapFieldByATS(j)
    \/ \E j \in 1..MaxControls : MapFieldByHeuristics(j)
    \/ \E j \in 1..MaxControls : MapFieldByQuestionPatterns(j)

MapperSpec == MapperInit /\ [][MapperNext]_vars


(***************************************************************************)
(* Part III.  The answer library on its own: findMatchingTemplate is put   *)
(* a question, as fallbackQuestionAnalysis and any other script of the     *)
(* page may do through window.AnswerLibrary.                               *)
(***************************************************************************)
\* Questions of one to MaxWords words: "work" and "team" are keywords of
\* several categories, "us" is too short to count and "hello" is a keyword of
\* none; "work team" matches a pattern.
Vocabulary == {"work", "team", "us", "hello"}

RECURSIVE joinWords(_)
joinWords(ws) == IF Len(ws) = 1 THEN ws[1] ELSE ws[1] \o " " \o joinWords(Tail(ws))

QuestionTexts ==
    {joinWords(ws) : ws \in UNION {[1..n -> Vocabulary] : n \in 1..MaxWords}}

\* Each question's template is computed once.
matchingTemplates == [q \in QuestionTexts |-> findMatchingTemplate(q)]

\* Whether findMatchingTemplate gets as far as calling findFuzzyMatch.
libraryCalls(questionText) ==
    IF questionText = "" THEN <<>>
    ELSE IF firstPatternMatch(trim(toLowerCase(questionText))) # 0
         THEN <<"getTemplate">>
         ELSE <<"findFuzzyMatch">>

LibraryInit ==
    /\ session \in {[questionText |-> q] : q \in QuestionTexts}
    /\ storageLocal = Installed /\ handlers = <<>>
    /\ formFields = <<>>
    /\ answer = Null
    /\ stageCalls = <<>>
    /\ now = Cold.now /\ RATE_LIMIT = Cold.RATE_LIMIT /\ CACHE = Cold.CACHE
    /\ calls = [i \in 1..NumInvocations |-> Idle]
    /\ ticks = [d \in Deltas |-> 0]
    /\ dailyDenial = "none"

\* AnswerLibrary.findMatchingTemplate(questionText)
FindMatchingTemplate ==
    /\ answer' = Answer("findMatchingTemplate", 0, matchingTemplates[session.questionText])
    /\ stageCalls' = libraryCalls(session.questionText)
    /\ UNCHANGED <<now, RATE_LIMIT, CACHE, calls, ticks, dailyDenial, session,
                 storageLocal, handlers, formFields>>

LibraryNext == FindMatchingTemplate

LibrarySpec == LibraryInit /\ [][LibraryNext]_vars


(***************************************************************************)
(* PART IV.  The background service worker (service-worker.js): the        *)
(* handlers of the messages that write chrome.storage.local.  A handler is *)
(* an async function: it runs from the message to its first await, and     *)
(* from each await that settles to the next; between two of its steps the  *)
(* steps of other handlers may run.                                        *)
(***************************************************************************)
\* The entry of the n-th application logged: n stands for its id
\* (Date.now().toString()) and its timestamp.
logEntry(n, applicationData) == [id |-> n, applicationData |-> applicationData]

\* The applicationLogs of a storage that has logged n applications so far
earlierLogs(n) == [i \in 1..n |-> logEntry(i, [url |-> "https://jobs.lever.co/acme"])]

storageAfter(n) ==
    IF n = 0 THEN Installed ELSE [applicationLogs |-> earlierLogs(n)] @@ Installed

TemplateKeys == {"whyInterested", "salary", "relocation"}
ProfileIds == {"default", "work", "research"}

\* The messages of the onMessage listener whose handlers write the storage
Messages ==
    {[type |-> "SAVE_PROFILE", profile |-> [id |-> id, name |-> "Ada"]] : id \in ProfileIds}
      \cup {[type |-> "SAVE_TEMPLATE", key |-> key, value |-> "I would like to..."] :
               key \in TemplateKeys}
      \cup {[type |-> "CAPTURE_SCREENSHOT", data |-> [url |-> "https://jobs.lever.co/acme"]],
            [type |-> "LOG_APPLICATION",
             applicationData |-> [url |-> "https://jobs.lever.co/acme"]]}

\* The storage key a handler reads and writes
storageKey(message) ==
    IF message.type = "SAVE_PROFILE" THEN "profiles"
    ELSE IF message.type = "SAVE_TEMPLATE" THEN "templates"
    ELSE "applicationLogs"

\* const { applicationLogs = [] } = await chrome.storage.local.get([key]):
\* what get resolves to for the key, [] for applicationLogs when it is not set
getResult(local, key) ==
    IF key \in DOMAIN local THEN local[key] ELSE <<>>

\* applicationLogs.splice(0, applicationLogs.length - 50) when length > 50
keepLast(logs, n) == IF Len(logs) > n THEN SubSeq(logs, Len(logs) - n + 1, Len(logs)) ELSE logs

\* profile.lastModified = Date.now(); if (!profile.created) profile.created = Date.now()
stamped(profile) ==
    Merge(profile, [lastModified |-> "Date.now()", created |-> "Date.now()"])

\* What a handler makes of the value it got, between its get and its set.
\* n is the number of the handler's message.
updated(message, n, got) ==
    IF message.type = "SAVE_PROFILE"
    THEN (message.profile.id :> stamped(message.profile)) @@ got
    ELSE IF message.type = "SAVE_TEMPLATE"
    THEN (message.key :> message.value) @@ got
    ELSE IF message.type = "CAPTURE_SCREENSHOT"
    THEN keepLast(Append(got, logEntry(n, message.data)), keptApplications)
    ELSE Append(got, logEntry(n, message.applicationData))

\* chrome.storage.local.set({key: value})
storageSet(local, key, value) == (key :> value) @@ local

\* A handler from the message to its first await: captureVisibleTab for
\* CAPTURE_SCREENSHOT, chrome.storage.local.get for the others.
started(message) ==
    [message |-> message,
     pc |-> IF message.type = "CAPTURE_SCREENSHOT" THEN "captureVisibleTab" ELSE "get"]

\* sendResponse of a handler
responded(message, success) == [message |-> message, pc |-> "responded", success |-> success]

WorkerInit ==
    /\ session \in {[applicationsLogged |-> n] :
                       n \in {0, keptApplications - 1, keptApplications}}
    /\ storageLocal = storageAfter(session.applicationsLogged)
    /\ handlers = <<>>
    /\ formFields = <<>>
    /\ answer = Null
    /\ stageCalls = <<>>
    /\ now = Cold.now /\ RATE_LIMIT = Cold.RATE_LIMIT /\ CACHE = Cold.CACHE
    /\ calls = [i \in 1..NumInvocations |-> Idle]
    /\ ticks = [d \in Deltas |-> 0]
    /\ dailyDenial = "none"

\* The onMessage listener calls the handler of the message's type.
Receive(message) ==
    /\ Len(handlers) < MaxMessages
    /\ handlers' = Append(handlers, started(message))
    /\ UNCHANGED <<now, RATE_LIMIT, CACHE, calls, ticks, dailyDenial, session, storageLocal,
                 formFields, answer, stageCalls>>

\* handleCaptureScreenshot: captureVisibleTab resolves; the handler builds its
\* entry and calls get.
Captured(h) ==
    /\ h \in 1..Len(handlers)
    /\ handlers[h].pc = "captureVisibleTab"
    /\ handlers' = [handlers EXCEPT ![h].pc = "get"]
    /\ UNCHANGED <<now, RATE_LIMIT, CACHE, calls, ticks, dailyDenial, session, storageLocal,
                 formFields, answer, stageCalls>>

\* get resolves with the value under the handler's key; the handler changes
\* the value and calls set with it.
Get(h) ==
    /\ h \in 1..Len(handlers)
    /\ handlers[h].pc = "get"
    /\ handlers' =
          [handlers EXCEPT ![h] =
              [message |-> handlers[h].message, pc |-> "set",
               value |-> updated(handlers[h].message, session.applicationsLogged + h,
                                 getResult(storageLocal, storageKey(handlers[h].message)))]]
    /\ UNCHANGED <<now, RATE_LIMIT, CACHE, calls, ticks, dailyDenial, session, storageLocal,
                 formFields, answer, stageCalls>>

\* set writes the handler's value and resolves; the handler responds success.
Set(h) ==
    /\ h \in 1..Len(handlers)
    /\ handlers[h].pc = "set"
    /\ storageLocal' = storageSet(storageLocal, storageKey(handlers[h].message),
                                  handlers[h].value)
    /\ handlers' = [handlers EXCEPT ![h] = responded(handlers[h].message, TRUE)]
    /\ UNCHANGED <<now, RATE_LIMIT, CACHE, calls, ticks, dailyDenial, session,
                 formFields, answer, stageCalls>>

\* The promise a handler awaits rejects (captureVisibleTab, get or set): its
\* catch block responds with the error.
Rejected(h) ==
    /\ h \in 1..Len(handlers)
    /\ handlers[h].pc \in {"captureVisibleTab", "get", "set"}
    /\ handlers' = [handlers EXCEPT ![h] = responded(handlers[h].message, FALSE)]
    /\ UNCHANGED <<now, RATE_LIMIT, CACHE, calls, ticks, dailyDenial, session, storageLocal,
                 formFields, answer, stageCalls>>

WorkerNext ==
    \/ \E message \in Messages : Receive(message)
    \/ \E h \in 1..MaxMessages : Captured(h)
    \/ \E h \in 1..MaxMessages : Get(h)
    \/ \E h \in 1..MaxMessages : Set(h)
    \/ \E h \in 1..MaxMessages : Rejected(h)

WorkerSpec == WorkerInit /\ [][WorkerNext]_vars


(***************************************************************************)
(* Vocabulary of the properties below.  A step is named by what it does to *)
(* calls[i]: an invocation starts, issues its remote call, or is answered. *)
(***************************************************************************)
Invocations == 1..NumInvocations

\* Invocation i starts in this step (analyzeFields / analyzeQuestion is called).
Started(i) == calls[i].pc = "idle" /\ calls'[i].pc # "idle"

\* Invocation i issues its remote call in this step.
Issued(i) == calls[i].pc = "idle" /\ calls'[i].pc = "fetch"

\* Invocation i returns in this step without a remote call, with the given outcome.
ReturnedAtOnce(i, outcome) ==
    calls[i].pc = "idle" /\ calls'[i].pc = "done" /\ calls'[i].outcome = outcome

\* The remote call of invocation i ends in this step, with one of the outcomes.
Answered(i, outcomes) ==
    calls[i].pc = "fetch" /\ calls'[i].pc = "done" /\ calls'[i].outcome \in outcomes

\* No invocation moves in this step.
NoCallMoves == calls' = calls

\* The entry of the operation's cache under the key of request r, or Null.
entryFor(op, r) ==
    IF cacheKey(op, r).threw THEN Null
    ELSE cacheGet(CACHE[cacheName(op)], cacheKey(op, r).key)

\* The daily window has elapsed at the current time.
WindowElapsed == now - RATE_LIMIT.dailyResetTime > DayMs

\* dailyUsage as a check made now sees it, after the daily reset.
UsageSeen == IF WindowElapsed THEN 0 ELSE RATE_LIMIT.dailyUsage

\* The entries a cache holds, as a set.
entriesOf(cache) == {cache[j] : j \in 1..Len(cache)}

(***************************************************************************)
(* C1.  Idempotence of analyzeFields: whenever analyzeFields is called for *)
(* a request whose own earlier result is in the cache and younger than the *)
(* TTL, including less than minInterval after the first call committed,    *)
(* the call returns that cached result and issues no remote call.          *)
(* The code checks the rate limiter before the cache, so this fails.       *)
(***************************************************************************)
C1_RepeatReturnsCached ==
    [][\A i \in Invocations :
          (Started(i) /\ calls'[i].op = "fields") =>
              \A e \in {entryFor("fields", calls'[i].req)} :
                  (/\ e # Null
                   /\ e.src = <<"fields", calls'[i].req>>
                   /\ now - e.timestamp <= ttl)
                  => (calls'[i].pc = "done" /\ calls'[i].result = e.data)]_vars

\* C1, the part that holds: such a repeated call never issues a second remote call.
C1_NoSecondRemoteCall ==
    [][\A i \in Invocations :
          (Started(i) /\ calls'[i].op = "fields") =>
              \A e \in {entryFor("fields", calls'[i].req)} :
                  (e # Null /\ now - e.timestamp <= ttl) => calls'[i].pc = "done"]_vars

\* C1: a repeated call was denied by the limiter although its result is cached and fresh.
C1_RepeatDenied ==
    \E i \in Invocations :
        /\ calls[i].pc = "done" /\ calls[i].op = "fields" /\ calls[i].outcome = "denied"
        /\ \E e \in {entryFor("fields", calls[i].req)} :
              /\ e # Null
              /\ e.src = <<"fields", calls[i].req>>
              /\ now - e.timestamp < minInterval
              /\ calls[i].result # e.data

(***************************************************************************)
(* C2.  analyzeFields never rejects and resolves with an array that has    *)
(* exactly as many elements as the input batch, in input order.  (That it  *)
(* never rejects is what Start, Fail and Respond show: each ends in a      *)
(* result.)  Two batches whose keys agree share a cache entry, so the      *)
(* cardinality fails.                                                      *)
(***************************************************************************)
C2_ResultMatchesBatch ==
    \A i \in Invocations :
        (calls[i].pc = "done" /\ calls[i].op = "fields") =>
            \A fields \in {FieldRequests[calls[i].req].fields} :
                /\ Len(calls[i].result) = Len(fields)
                /\ \A j \in 1..Len(fields) : calls[i].result[j].name = fields[j].name

(***************************************************************************)
(* C3.  Remote-call gating.  An invocation issues its remote call only if  *)
(* canMakeRequest returned true for it and its key has no fresh entry.     *)
(* When canMakeRequest returns false it issues no remote call, writes no   *)
(* cache entry, leaves lastRequestTime unchanged and does not raise        *)
(* dailyUsage: dailyUsage stays, or is reset to 0 with the daily window.   *)
(***************************************************************************)
C3_RemoteCallGated ==
    [][\A i \in Invocations :
          /\ Issued(i) =>
                /\ canMakeRequest(RATE_LIMIT, now).granted
                /\ \A e \in {entryFor(calls'[i].op, calls'[i].req)} :
                      e = Null \/ now - e.timestamp > ttl
          /\ (Started(i) /\ ~canMakeRequest(RATE_LIMIT, now).granted) =>
                /\ ReturnedAtOnce(i, "denied")
                /\ CACHE' = CACHE
                /\ RATE_LIMIT'.lastRequestTime = RATE_LIMIT.lastRequestTime
                /\ RATE_LIMIT'.dailyUsage =
                      (IF WindowElapsed THEN 0 ELSE RATE_LIMIT.dailyUsage)]_vars

\* C3 as stated: a denied invocation leaves dailyUsage unchanged.
C3_DeniedLeavesUsage ==
    [][\A i \in Invocations :
          (Started(i) /\ ~canMakeRequest(RATE_LIMIT, now).granted) =>
              /\ ReturnedAtOnce(i, "denied")
              /\ CACHE' = CACHE
              /\ RATE_LIMIT'.lastRequestTime = RATE_LIMIT.lastRequestTime
              /\ RATE_LIMIT'.dailyUsage = RATE_LIMIT.dailyUsage]_vars

\* C3: an invocation was denied while calls had been committed in this window.
C3_DeniedAfterCommits ==
    \E i \in Invocations :
        /\ calls[i].pc = "done" /\ calls[i].outcome = "denied"
        /\ RATE_LIMIT.dailyUsage > 0
        /\ now - RATE_LIMIT.lastRequestTime < minInterval

(***************************************************************************)
(* C4.  Admission and commit are not atomic: invocations that overlap at   *)
(* the await of the remote call all pass canMakeRequest before any of them *)
(* commits, so dailyUsage can end above requestsPerDay.  The overshoot is  *)
(* bounded by the overlap: dailyUsage plus the remote calls in flight      *)
(* never exceeds requestsPerDay - 1 + NumInvocations.                      *)
(***************************************************************************)
InFlight == Cardinality({i \in Invocations : calls[i].pc = "fetch"})

C4_OvershootBounded ==
    RATE_LIMIT.dailyUsage + InFlight <= requestsPerDay - 1 + NumInvocations

\* C4: two invocations passed the check and committed within the same
\* millisecond, and dailyUsage ended above requestsPerDay.
C4_RaceOvershoots ==
    /\ \A d \in Deltas : ticks[d] = 0
    /\ \E i, j \in Invocations :
          /\ i # j
          /\ calls[i].pc = "done" /\ calls[i].outcome = "ok"
          /\ calls[j].pc = "done" /\ calls[j].outcome = "ok"
    /\ RATE_LIMIT.dailyUsage > requestsPerDay

(***************************************************************************)
(* C5.  Daily limit: while dailyUsage >= requestsPerDay and the daily      *)
(* window has not elapsed, canMakeRequest returns false, and an invocation *)
(* that starts is denied.                                                  *)
(***************************************************************************)
C5_DailyLimitDenies ==
    [][(RATE_LIMIT.dailyUsage >= requestsPerDay /\ ~WindowElapsed) =>
          /\ ~canMakeRequest(RATE_LIMIT, now).granted
          /\ \A i \in Invocations : Started(i) => ReturnedAtOnce(i, "denied")]_vars

\* C5: the request following requestsPerDay committed calls was denied, with
\* the per-minute interval elapsed.
C5_DeniedAtLimit ==
    /\ dailyDenial = "denied"
    /\ RATE_LIMIT.dailyUsage = requestsPerDay
    /\ ~WindowElapsed
    /\ now - RATE_LIMIT.lastRequestTime >= minInterval
    /\ \E i \in Invocations : calls[i].pc = "done" /\ calls[i].outcome = "denied"

(***************************************************************************)
(* C6.  Daily window reset: the first canMakeRequest call made more than   *)
(* 24h after dailyResetTime by a caller that was denied on the daily limit *)
(* resets dailyUsage to 0 and dailyResetTime to now, and is granted if at  *)
(* least minInterval has passed since the last committed request; if less  *)
(* has passed it is denied still.                                          *)
(***************************************************************************)
C6_ResetThenInterval ==
    [][(dailyDenial = "denied" /\ WindowElapsed) =>
          /\ \A i \in Invocations :
                Started(i) =>
                    /\ RATE_LIMIT' = [RATE_LIMIT EXCEPT !.dailyUsage = 0,
                                                        !.dailyResetTime = now]
                    /\ ReturnedAtOnce(i, "denied")
                          <=> now - RATE_LIMIT.lastRequestTime < minInterval
          /\ (NoCallMoves /\ RATE_LIMIT' # RATE_LIMIT) =>
                RATE_LIMIT' = [RATE_LIMIT EXCEPT !.dailyUsage = 0, !.dailyResetTime = now]]_vars

\* C6 as stated: that first call is granted.
C6_DeniedCallerGranted ==
    [][(dailyDenial = "denied" /\ WindowElapsed) =>
          \A i \in Invocations :
              Started(i) =>
                  /\ RATE_LIMIT' = [RATE_LIMIT EXCEPT !.dailyUsage = 0,
                                                      !.dailyResetTime = now]
                  /\ ~ReturnedAtOnce(i, "denied")]_vars

\* C6: a caller denied on the daily limit was granted by the check that reset the window.
C6_Readmitted ==
    /\ dailyDenial = "readmitted"
    /\ RATE_LIMIT.dailyUsage = 0
    /\ RATE_LIMIT.dailyResetTime = now
    /\ \E i \in Invocations : calls[i].pc = "fetch"

(***************************************************************************)
(* C7.  Per-minute window: with the daily limit not reached, canMakeRequest*)
(* returns false when fewer than minInterval = 60000 / requestsPerMinute   *)
(* ms have passed since lastRequestTime and true when at least minInterval *)
(* has passed, and an invocation that starts is denied or not accordingly. *)
(***************************************************************************)
C7_PerMinuteWindow ==
    [][UsageSeen < requestsPerDay =>
          /\ canMakeRequest(RATE_LIMIT, now).granted
                <=> now - RATE_LIMIT.lastRequestTime >= 60000 \div requestsPerMinute
          /\ \A i \in Invocations :
                Started(i) =>
                    (ReturnedAtOnce(i, "denied")
                        <=> now - RATE_LIMIT.lastRequestTime < 60000 \div requestsPerMinute)]_vars

\* C7: a remote call was issued exactly minInterval after the last committed request.
C7_GrantedAtInterval ==
    /\ RATE_LIMIT.lastRequestTime >= ClockOrigin
    /\ now - RATE_LIMIT.lastRequestTime = 60000 \div requestsPerMinute
    /\ \E i \in Invocations : calls[i].pc = "fetch"

(***************************************************************************)
(* C8.  Rate-limiter frame.  lastRequestTime and dailyUsage advance (to    *)
(* now, by one) exactly in the step in which a remote call ends with an OK *)
(* response whose body decoded; a remote call that fails (transport error, *)
(* non-OK status, or an OK response whose body does not decode) leaves the *)
(* limiter as it is; every other step (a check, a cache hit, clearCache,   *)
(* getUsageStats) leaves it as it is or resets the daily window.           *)
(***************************************************************************)
C8_LimiterFrame ==
    [][/\ \A i \in Invocations :
             Answered(i, {"ok"}) =>
                 RATE_LIMIT' = [RATE_LIMIT EXCEPT !.lastRequestTime = now,
                                                  !.dailyUsage = @ + 1]
       /\ \A i \in Invocations :
             Answered(i, {"transport", "notOk", "badBody"}) => RATE_LIMIT' = RATE_LIMIT
       /\ (\A i \in Invocations : ~Answered(i, {"ok"})) =>
             \/ RATE_LIMIT' = RATE_LIMIT
             \/ /\ WindowElapsed
                /\ RATE_LIMIT' = [RATE_LIMIT EXCEPT !.dailyUsage = 0, !.dailyResetTime = now]
       /\ (NoCallMoves /\ CACHE' # CACHE) => RATE_LIMIT' = RATE_LIMIT]_vars

\* C8 as stated: every remote call that returned an OK response commits.
C8_CommitOnHttpOk ==
    [][\A i \in Invocations :
          Answered(i, {"ok", "badBody"}) =>
              RATE_LIMIT' = [RATE_LIMIT EXCEPT !.lastRequestTime = now,
                                               !.dailyUsage = @ + 1]]_vars

\* C8: a remote call came back and was committed.
C8_Committed ==
    /\ RATE_LIMIT.lastRequestTime = now
    /\ RATE_LIMIT.dailyUsage = 1
    /\ \E i \in Invocations : calls[i].pc = "done" /\ calls[i].outcome = "ok"

(***************************************************************************)
(* C9.  Cache bound: each cache map holds at most maxSize entries after    *)
(* every step, and a write followed by cleanupCache keeps, of the entries  *)
(* the map held under other keys and the entry written, exactly the newest *)
(* ones by timestamp, up to maxSize of them.                               *)
(***************************************************************************)
\* What a write of key at the current time made of a map: old before, kept after.
newestKept(old, kept, key) ==
    /\ \A k \in kept : (k \in old /\ k.key # key) \/ (k.key = key /\ k.timestamp = now)
    /\ Cardinality(kept) = Min(maxSize, Cardinality({e \in old : e.key # key}) + 1)
    /\ \A e \in old \ kept : e.key # key => \A k \in kept : e.timestamp <= k.timestamp
    /\ (\A k \in kept : k.key # key) => \A k \in kept : now <= k.timestamp

C9_CacheBound ==
    [][\A op \in Ops :
          /\ Len(CACHE'[cacheName(op)]) <= maxSize
          /\ \A i \in Invocations :
                (Answered(i, {"ok"}) /\ calls[i].op = op) =>
                    newestKept(entriesOf(CACHE[cacheName(op)]),
                               entriesOf(CACHE'[cacheName(op)]),
                               cacheKey(op, calls[i].req).key)]_vars

\* C9: more than maxSize distinct keys were written; the oldest entry is gone.
C9_OldestEvicted ==
    \E op \in Ops :
        /\ Len(CACHE[cacheName(op)]) = maxSize
        /\ \A e \in entriesOf(CACHE[cacheName(op)]) : e.src # <<"prior", 1>>
        /\ Cardinality({e \in entriesOf(CACHE[cacheName(op)]) : e.timestamp = now}) = 2

Unparsed == [content |-> "prose"]

C11_ParseFailureNotCached ==
    [][\A i \in Invocations : Respond(i, Unparsed) => CACHE' = CACHE]_vars

\* C11: the entry under a request's key holds what the parser returned for an
\* answer without JSON, and a later admitted call for the key returned it.
C11_UnparsedServed ==
    \E i \in Invocations, op \in Ops :
        /\ calls[i].pc = "done" /\ calls[i].op = op /\ calls[i].outcome = "hit"
        /\ calls[i].result = parseOf(op, calls[i].req, Unparsed)
        /\ entryFor(op, calls[i].req) # Null
        /\ entryFor(op, calls[i].req).data = calls[i].result


(***************************************************************************)
(* C12.  Lazy expiry: a lookup that finds an expired entry does not delete *)
(* it, the cache maps are unchanged by the lookup; an expired entry leaves *)
(* its map only in a cache write into that map, for the entry's own key or *)
(* with the map at capacity, or when clearCache() empties the maps.        *)
(***************************************************************************)
\* This step is a cache write into the map of op that may remove entry e.
WriteOver(op, e) ==
    \E i \in Invocations :
        /\ Answered(i, {"ok"}) /\ calls[i].op = op
        /\ \/ cacheKey(op, calls[i].req).key = e.key
           \/ Len(CACHE[cacheName(op)]) = maxSize

\* The expired entries of the map of op that this step removes.
StaleRemoved(op) ==
    {e \in entriesOf(CACHE[cacheName(op)]) :
        isCacheExpired(e, now) /\ e \notin entriesOf(CACHE'[cacheName(op)])}

\* This step is clearCache().
Cleared == NoCallMoves /\ CACHE' = [fieldAnalysis |-> <<>>, questionAnalysis |-> <<>>]

C13_HitFromSameRequest ==
    [][\A i \in Invocations :
          (ReturnedAtOnce(i, "hit") /\ calls'[i].op = "fields") =>
              \E e \in {entryFor("fields", calls'[i].req)} :
                  /\ e.src[1] = "fields"
                  /\ FieldRequests[e.src[2]] = FieldRequests[calls'[i].req]]_vars


(***************************************************************************)
(* Vocabulary of the properties of Part II.                                *)
(***************************************************************************)
\* The descriptors mapFields has returned, by position.
MappedFields == 1..Len(formFields)

\* The last direct call was of fn.
DirectCall(fn) == answer # Null /\ answer.fn = fn

\* The control the last direct call was about.
answerControl == session.controls[answer.index]

InHeuristicRange(c) == RatLT(Rat(3, 10), c) /\ RatLE(c, Rat(4, 5))

(***************************************************************************)
(* C14.  Scenario A: on platform 'unknown', mapFields classifies the field *)
(* {type text, name 'first_name', label 'First Name'} as purpose firstName *)
(* with method heuristic and a confidence c with 0.3 < c <= 0.8.           *)
(* firstName scores 4 of 14 for this field, below the threshold, and       *)
(* fullName, which scores 4 of 13, is returned, so this fails.             *)
(***************************************************************************)
C14_ScenarioA ==
    \A j \in MappedFields :
        (session.atsType = "unknown" /\ session.controls[j] = FirstNameControl) =>
            /\ formFields[j].purpose = "firstName"
            /\ formFields[j].mappingMethod = "heuristic"
            /\ InHeuristicRange(formFields[j].confidence)

\* C14: the field of scenario A came back as fullName with confidence 4/13.
C14_MappedAsFullName ==
    \E j \in MappedFields :
        /\ session.atsType = "unknown" /\ session.controls[j] = FirstNameControl
        /\ formFields[j].purpose = "fullName"
        /\ formFields[j].mappingMethod = "heuristic"
        /\ formFields[j].confidence = Rat(4, 13)

(***************************************************************************)
(* C15.  A field is resolved through the platform rule table exactly when  *)
(* the table of the page's platform has a selector its element matches;    *)
(* every such field gets the first such purpose, mappingMethod             *)
(* 'ats-specific' and confidence exactly 0.9.  In particular the control   *)
(* <input type="email" name="email"> on greenhouse is resolved to email.   *)
(***************************************************************************)
C15_RuleMatchIsAtsSpecific ==
    \A j \in MappedFields :
        /\ formFields[j].mappingMethod = "ats-specific" <=>
               mapFieldByATS([element |-> session.controls[j].element],
                             session.atsType) # "unknown"
        /\ formFields[j].mappingMethod = "ats-specific" =>
               /\ formFields[j].confidence = Rat(9, 10)
               /\ formFields[j].purpose =
                      mapFieldByATS([element |-> session.controls[j].element],
                                    session.atsType)
        /\ (session.atsType = "greenhouse" /\ session.controls[j] = EmailControl) =>
               /\ formFields[j].purpose = "email"
               /\ formFields[j].mappingMethod = "ats-specific"
               /\ formFields[j].confidence = Rat(9, 10)

\* C15: scenario B has run: the email control of a greenhouse page is mapped.
C15_ScenarioB ==
    \E j \in MappedFields :
        /\ session.atsType = "greenhouse" /\ session.controls[j] = EmailControl
        /\ formFields[j].purpose = "email"
        /\ formFields[j].mappingMethod = "ats-specific"


(***************************************************************************)
(* The score of a purpose for a control, counted predicate by predicate:   *)
(* the name, placeholder and label predicates the field's text contains,   *)
(* and one more if the field's type is among the purpose's types.          *)
(***************************************************************************)
Purposes == 1..Len(HEURISTIC_PATTERNS)

TextPredicates(k) ==
    {<<"names", i>> : i \in 1..Len(HEURISTIC_PATTERNS[k].names)}
      \cup {<<"placeholders", i>> : i \in 1..Len(HEURISTIC_PATTERNS[k].placeholders)}
      \cup {<<"labels", i>> : i \in 1..Len(HEURISTIC_PATTERNS[k].labels)}

TypePredicates(k) == {<<"types", i>> : i \in 1..Len(HEURISTIC_PATTERNS[k].types)}

PredicateHolds(control, k, p) ==
    IF p[1] = "types"
    THEN HEURISTIC_PATTERNS[k].types[p[2]] = elementType(control.element)
    ELSE includes(fieldTextOf(rawOf(control)), toLowerCase(HEURISTIC_PATTERNS[k][p[1]][p[2]]))

\* min(score / maxScore, 0.8) of every purpose for every control.
CappedConfidence ==
    [c \in Controls |-> [k \in Purposes |->
        RatMin(Rat(Cardinality({p \in TextPredicates(k) : PredicateHolds(c, k, p)})
                     + (IF \E p \in TypePredicates(k) : PredicateHolds(c, k, p)
                        THEN 1 ELSE 0),
                   Cardinality(TextPredicates(k) \cup TypePredicates(k))),
               Rat(4, 5))]]

Qualifies(control, k) == RatLT(Rat(3, 10), CappedConfidence[control][k])

(***************************************************************************)
(* C16.  Among the purposes whose confidence exceeds 0.3 for a field,      *)
(* mapFieldByHeuristics returns the one with the highest confidence, ties  *)
(* going to the purpose declared first.  The loop returns the first        *)
(* purpose over the threshold, whatever the later ones score, so this      *)
(* fails.                                                                  *)
(***************************************************************************)
C16_HighestConfidenceWins ==
    (DirectCall("mapFieldByHeuristics") /\ answer.result.purpose # "unknown") =>
        \E k \in Purposes :
            /\ HEURISTIC_PATTERNS[k].purpose = answer.result.purpose
            /\ \A m \in Purposes :
                   Qualifies(answerControl, m) =>
                       /\ RatLE(CappedConfidence[answerControl][m],
                                CappedConfidence[answerControl][k])
                       /\ CappedConfidence[answerControl][m]
                              = CappedConfidence[answerControl][k] => k <= m

\* C16: the result is a purpose that a later, qualifying purpose outscores.
C16_LaterPurposeOutscores ==
    /\ DirectCall("mapFieldByHeuristics")
    /\ \E k, m \in Purposes :
           /\ HEURISTIC_PATTERNS[k].purpose = answer.result.purpose
           /\ k < m
           /\ RatLT(CappedConfidence[answerControl][k], CappedConfidence[answerControl][m])

(***************************************************************************)
(* C17.  Every result of mapFieldByHeuristics with a purpose other than    *)
(* 'unknown' has confidence c = min(score / maxScore, 0.8) with            *)
(* 0.3 < c <= 0.8, maxScore counting every name, placeholder, label and    *)
(* type predicate of that purpose; when no purpose exceeds 0.3 the result  *)
(* is 'unknown' (with confidence 0).                                       *)
(***************************************************************************)
C17_HeuristicConfidence ==
    DirectCall("mapFieldByHeuristics") =>
        /\ answer.result.purpose # "unknown" =>
               \E k \in Purposes :
                   /\ HEURISTIC_PATTERNS[k].purpose = answer.result.purpose
                   /\ answer.result.confidence = CappedConfidence[answerControl][k]
                   /\ InHeuristicRange(answer.result.confidence)
        /\ (\A k \in Purposes : ~Qualifies(answerControl, k)) =>
               answer.result = [purpose |-> "unknown", confidence |-> RatZero]

\* C17: a result at the cap, one below the cap, and one 'unknown' are all seen;
\* this is the one at the cap (city, 8 of 9 predicates).
C17_CappedResult ==
    /\ DirectCall("mapFieldByHeuristics")
    /\ answer.result.purpose = "city"
    /\ answer.result.confidence = Rat(4, 5)
    /\ answerControl = CityControl


\* Field j of the page is one for the pattern stage: no rule of the platform
\* matches it, no purpose exceeds the heuristic threshold, a question pattern
\* matches its label and placeholder.
ForPatternStage(j) ==
    /\ mapFieldByATS([element |-> session.controls[j].element], session.atsType) = "unknown"
    /\ \A k \in Purposes : ~Qualifies(session.controls[j], k)
    /\ mapFieldByQuestionPatterns(rawOf(session.controls[j])) # "unknown"

(***************************************************************************)
(* C18.  Every field that mapFields resolves at the pattern stage (no rule *)
(* match, no heuristic match, a question pattern matches) gets confidence  *)
(* exactly 0.7.  mapFields never reaches its pattern stage: the test       *)
(* heuristicMapping !== 'unknown' compares an object with a string, so the *)
(* heuristic branch returns for every field the rules left, and such a     *)
(* field gets confidence 0.                                                *)
(***************************************************************************)
C18_PatternStageConfidence ==
    \A j \in MappedFields : ForPatternStage(j) => formFields[j].confidence = Rat(7, 10)

\* C18: a field for the pattern stage has come back from mapFields as an
\* unresolved heuristic result.
C18_LeftToHeuristicBranch ==
    \E j \in MappedFields :
        /\ ForPatternStage(j)
        /\ session.controls[j] = InterestControl
        /\ formFields[j].purpose = "unknown"
        /\ formFields[j].confidence = RatZero
        /\ formFields[j].mappingMethod = "heuristic"


\* The methods of the contract.
Methods == {"ats-specific", "heuristic", "pattern", "llm", "fallback"}

\* The closed taxonomy of field purposes.
Taxonomy ==
    {"firstName", "lastName", "fullName", "email", "phone", "address", "city", "state",
     "zipCode", "country", "currentTitle", "currentCompany", "yearsExperience",
     "desiredSalary", "availableStartDate", "resumeUpload", "coverLetterUpload",
     "whyInterested", "whyQualified", "careerGoals", "additionalInfo", "unknown"}

HasMethod(field) == "mappingMethod" \in DOMAIN field /\ field.mappingMethod \in Methods

(***************************************************************************)
(* C19.  Every field returned by mapFields or analyzeFields carries a      *)
(* mappingMethod that is one of ats-specific, heuristic, pattern, llm,     *)
(* fallback.  This is the half about analyzeFields: it fails, because a    *)
(* descriptor the answer does not mention, or any descriptor when the      *)
(* answer cannot be parsed, is returned as it came in.                     *)
(***************************************************************************)
C19_AnalyzeFieldsMethods ==
    \A i \in Invocations :
        (calls[i].pc = "done" /\ calls[i].op = "fields") =>
            \A f \in 1..Len(calls[i].result) : HasMethod(calls[i].result[f])

\* C19, the half about mapFields: every descriptor it returns carries a
\* mappingMethod of the contract (only ats-specific and heuristic occur).
C19_MapFieldsMethods ==
    \A j \in MappedFields : HasMethod(formFields[j])

\* C19: analyzeFields has returned, after a remote call that succeeded, a
\* field without a mappingMethod.
C19_FieldWithoutMethod ==
    \E i \in Invocations :
        /\ calls[i].pc = "done" /\ calls[i].op = "fields" /\ calls[i].outcome = "ok"
        /\ \E f \in 1..Len(calls[i].result) :
               "mappingMethod" \notin DOMAIN calls[i].result[f]

C20_MappedPurposesInTaxonomy ==
    \A j \in MappedFields : formFields[j].purpose \in Taxonomy

InUnitInterval(c) == RatLE(RatZero, c) /\ RatLE(c, Rat(1, 1))

HasUnitConfidence(field) == "confidence" \in DOMAIN field /\ InUnitInterval(field.confidence)

\* The field's purpose and confidence were taken from the provider's answer.
FromProvider(field) == "mappingMethod" \in DOMAIN field /\ field.mappingMethod = "llm"

(***************************************************************************)
(* C21.  Every field returned by mapFields or analyzeFields has a          *)
(* confidence in [0, 1], including fields whose confidence was taken from  *)
(* the provider's answer.  This is the half about analyzeFields: it fails, *)
(* because the provider's number is copied onto the field unchecked.       *)
(***************************************************************************)
C21_AnalyzeFieldsConfidence ==
    \A i \in Invocations :
        (calls[i].pc = "done" /\ calls[i].op = "fields") =>
            \A f \in 1..Len(calls[i].result) :
                FromProvider(calls[i].result[f]) => HasUnitConfidence(calls[i].result[f])

\* C21, the half about mapFields: 0.9, a heuristic confidence up to 0.8, or 0.
C21_MapFieldsConfidence ==
    \A j \in MappedFields : HasUnitConfidence(formFields[j])

\* C21: analyzeFields has returned a field with the provider's confidence 95.
C21_ProviderConfidenceKept ==
    \E i \in Invocations :
        /\ calls[i].pc = "done" /\ calls[i].op = "fields" /\ calls[i].outcome = "ok"
        /\ \E f \in 1..Len(calls[i].result) :
               /\ FromProvider(calls[i].result[f])
               /\ calls[i].result[f].confidence = Rat(95, 1)


\* The category whose pattern matches each question of the workload ("" if none).
patternCategory ==
    [r \in 1..Len(QuestionRequests) |->
        LET k == firstPatternMatch(trim(toLowerCase(QuestionRequests[r].questionText)))
        IN IF k = 0 THEN "" ELSE QUESTION_PATTERNS[k].key]

(***************************************************************************)
(* C22.  Scenario C: a question that matches a pattern ("Why are you       *)
(* interested in this position?", category whyInterested) is resolved at   *)
(* the pattern stage and no remote call is issued for it, also when the    *)
(* limiter grants and the cache is empty.  analyzeQuestion consults the    *)
(* patterns only in its fallback, after a denial or a failed remote call,  *)
(* so this fails.                                                          *)
(***************************************************************************)
C22_PatternQuestionStaysLocal ==
    [][\A i \in Invocations :
          (/\ Started(i) /\ calls'[i].op = "question"
           /\ patternCategory[calls'[i].req] = "whyInterested")
          => ~Issued(i)]_vars

\* C22: a remote call is in flight for the question of scenario C, issued on
\* a cold limiter and an empty cache.
C22_RemoteCallForPatternQuestion ==
    \E i \in Invocations :
        /\ calls[i].pc = "fetch" /\ calls[i].op = "question"
        /\ QuestionRequests[calls[i].req].questionText
               = "Why are you interested in this position?"
        /\ patternCategory[calls[i].req] = "whyInterested"
        /\ RATE_LIMIT.dailyUsage = 0 /\ RATE_LIMIT.lastRequestTime = 0
        /\ CACHE.questionAnalysis = <<>>


\* The properties of a descriptor apart from the mapping's method and
\* confidence and the explanatory llmReasoning.
OwnProperties(field) == (DOMAIN field) \ {"mappingMethod", "confidence", "llmReasoning"}

\* out is in with method 'fallback' and a confidence unchanged or raised to 0.3.
DegradedFrom(out, in) ==
    /\ OwnProperties(out) = OwnProperties(in)
    /\ \A k \in OwnProperties(in) : out[k] = in[k]
    /\ out.mappingMethod = "fallback"
    /\ \/ "confidence" \in DOMAIN in /\ out.confidence = in.confidence
       \/ out.confidence = Rat(3, 10) /\ RatLE(confidenceOr0(in), Rat(3, 10))

(***************************************************************************)
(* C23.  Scenario D: when analyzeFields is denied by the rate limiter,     *)
(* every returned field equals the corresponding input field except that   *)
(* its method is 'fallback' and its confidence is unchanged or raised to   *)
(* the floor 0.3, also for fields that already carry a mappingMethod.      *)
(* fallbackFieldAnalysis keeps the mappingMethod a field comes with, so    *)
(* this fails.                                                             *)
(***************************************************************************)
C23_DeniedIsFallback ==
    \A i \in Invocations :
        (calls[i].pc = "done" /\ calls[i].op = "fields" /\ calls[i].outcome = "denied") =>
            /\ Len(calls[i].result) = Len(FieldRequests[calls[i].req].fields)
            /\ \A f \in 1..Len(calls[i].result) :
                   DegradedFrom(calls[i].result[f], FieldRequests[calls[i].req].fields[f])

\* C23: a denied call returned a field that still carries the method it came with.
C23_MethodKept ==
    \E i \in Invocations :
        /\ calls[i].pc = "done" /\ calls[i].op = "fields" /\ calls[i].outcome = "denied"
        /\ \E f \in 1..Len(calls[i].result) :
               /\ FieldRequests[calls[i].req].fields[f].mappingMethod = "ats-specific"
               /\ calls[i].result[f].mappingMethod = "ats-specific"


\* The descriptors of fields that no stage of mapFields resolved.
Unresolved(fields) == {j \in 1..Len(fields) : fields[j].purpose = "unknown"}

(***************************************************************************)
(* C24.  The fields of one mapFields call that the rule, heuristic and     *)
(* pattern stages left unresolved are handed to GeminiClient.analyzeFields *)
(* as a single batch: a mapFields call with unresolved fields starts       *)
(* exactly one inference request.  scheduleLLMAnalysis only marks fields   *)
(* for manual review, and mapFields never flags a field for it, so no      *)
(* request is started and this fails.                                      *)
(***************************************************************************)
C24_UnresolvedBatched ==
    [][((AnalyzeFormFields \/ MapFields) /\ Unresolved(formFields') # {}) =>
          Cardinality({i \in Invocations : Started(i) /\ calls'[i].op = "fields"}) = 1]_vars

\* C24: mapFields has returned unresolved fields; none is flagged for LLM
\* analysis or manual review and no inference request has started.
C24_UnresolvedNotSent ==
    /\ Unresolved(formFields) # {}
    /\ \A j \in MappedFields :
           /\ "needsLLMAnalysis" \notin DOMAIN formFields[j]
           /\ "needsManualReview" \notin DOMAIN formFields[j]
    /\ \A i \in Invocations : calls[i].pc = "idle"


\* The callback of field j called the mapping function fn.
Ran(j, fn) == \E k \in 1..Len(stageCalls[j]) : stageCalls[j][k] = fn

\* What the rule table of the page's platform says about field j.
RuleOf(j) == mapFieldByATS([element |-> session.controls[j].element], session.atsType)

\* The first purpose, in declaration order, over the heuristic threshold for
\* field j ("unknown" if there is none).
FirstQualifying(j) ==
    IF \E k \in Purposes : Qualifies(session.controls[j], k)
    THEN HEURISTIC_PATTERNS[CHOOSE k \in Purposes :
                                /\ Qualifies(session.controls[j], k)
                                /\ \A m \in 1..(k - 1) : ~Qualifies(session.controls[j], m)].purpose
    ELSE "unknown"

StageOrder == <<"mapFieldByATS", "mapFieldByHeuristics", "mapFieldByQuestionPatterns">>

(***************************************************************************)
(* C25.  Stage ordering in mapFields: for each field the stage functions   *)
(* are called in the order rule, heuristic, pattern; the heuristic stage   *)
(* runs only if the rule stage returned no purpose, the pattern stage only *)
(* if both earlier stages returned none; and a field resolved by one stage *)
(* is not re-classified by a later one: a rule match keeps the rule's      *)
(* purpose, a heuristic match the heuristic's.                             *)
(***************************************************************************)
C25_StageOrder ==
    /\ Len(stageCalls) = Len(formFields)
    /\ \A j \in MappedFields :
           /\ \A k \in 1..Len(stageCalls[j]) : stageCalls[j][k] = StageOrder[k]
           /\ Ran(j, "mapFieldByHeuristics") => RuleOf(j) = "unknown"
           /\ Ran(j, "mapFieldByQuestionPatterns") =>
                  RuleOf(j) = "unknown" /\ FirstQualifying(j) = "unknown"
           /\ RuleOf(j) # "unknown" =>
                  /\ formFields[j].purpose = RuleOf(j)
                  /\ formFields[j].mappingMethod = "ats-specific"
           /\ (RuleOf(j) = "unknown" /\ FirstQualifying(j) # "unknown") =>
                  /\ formFields[j].purpose = FirstQualifying(j)
                  /\ formFields[j].mappingMethod = "heuristic"

\* C25: a field the rule stage resolved, for which the heuristic stage would
\* have given another purpose, went through the rule stage only.
C25_RuleStageOnly ==
    \E j \in MappedFields :
        /\ RuleOf(j) # "unknown"
        /\ FirstQualifying(j) \notin {"unknown", RuleOf(j)}
        /\ stageCalls[j] = <<"mapFieldByATS">>
        /\ formFields[j].purpose = RuleOf(j)


(***************************************************************************)
(* C26.  Every analyzeFields and analyzeQuestion invocation eventually     *)
(* returns a result, provided its remote call, once issued, completes or   *)
(* fails: an invocation is never anywhere but not called, at the await of  *)
(* its remote call, or returned with a result, whatever the limiter, the   *)
(* cache, the key computation, the provider and the parser do; and one     *)
(* that is at the await gets to its return.                                *)
(***************************************************************************)
C26_AlwaysResolves ==
    /\ [](\A i \in Invocations :
             /\ calls[i].pc \in {"idle", "fetch", "done"}
             /\ calls[i].pc = "done" =>
                    /\ calls[i].outcome \in {"denied", "threw", "hit", "ok"} \cup Failures
                    /\ "result" \in DOMAIN calls[i])
    /\ \A i \in Invocations : (calls[i].pc = "fetch") ~> (calls[i].pc = "done")

\* C26: an invocation has returned the fallback after its remote call failed.
C26_ResolvedAfterFailure ==
    \E i \in Invocations :
        /\ calls[i].pc = "done" /\ calls[i].outcome \in Failures
        /\ calls[i].result = fallback(calls[i].op, calls[i].req)


(***************************************************************************)
(* C27.  analyzeQuestion never rejects: it returns an analysis whose       *)
(* source is one of llm, template_fallback, fallback and error.  When the  *)
(* limiter denies the call or the remote call fails, the source is         *)
(* template_fallback if the answer library has a template for the          *)
(* question (a pattern of some category matches it, or the keywords of     *)
(* some category are similar enough to it), and otherwise it is fallback,  *)
(* with confidence 0 and the key point 'Manual analysis required'.         *)
(***************************************************************************)
Sources == {"llm", "template_fallback", "fallback", "error"}

\* The answer library has a template for the question.
LibraryMatches(questionText) ==
    /\ questionText # ""
    /\ \E k \in 1..Len(QUESTION_PATTERNS) :
          \/ \E j \in 1..Len(QUESTION_PATTERNS[k].patterns) :
                 test(QUESTION_PATTERNS[k].patterns[j], trim(toLowerCase(questionText)))
          \/ RatLT(Rat(3, 10),
                   fuzzySimilarity(fuzzyScore(split(trim(toLowerCase(questionText))),
                                              QUESTION_PATTERNS[k].patterns)))

QuestionMatches == [r \in 1..Len(QuestionRequests) |->
                       LibraryMatches(QuestionRequests[r].questionText)]

C27_QuestionSources ==
    \A i \in Invocations :
        /\ calls[i].pc \in {"idle", "fetch", "done"}
        /\ (calls[i].pc = "done" /\ calls[i].op = "question") =>
              /\ calls[i].result.source \in Sources
              /\ calls[i].outcome \in {"denied"} \cup Failures =>
                    IF QuestionMatches[calls[i].req]
                    THEN calls[i].result.source = "template_fallback"
                    ELSE /\ calls[i].result.source = "fallback"
                         /\ calls[i].result.confidence = RatZero
                         /\ calls[i].result.keyPoints = <<"Manual analysis required">>

\* C27 witness: the remote call for a question that no template matches failed,
\* and the caller got the manual analysis.
C27_FailedWithoutTemplate ==
    \E i \in Invocations :
        /\ calls[i].pc = "done" /\ calls[i].op = "question"
        /\ calls[i].outcome \in Failures
        /\ ~QuestionMatches[calls[i].req]
        /\ calls[i].result.source = "fallback"


(***************************************************************************)
(* C28.  Merge by index: when the provider's answer parses, element p of   *)
(* the result (counted from 1 here, from 0 in the code) is input field p   *)
(* overlaid with the purpose, the confidence and the reasoning of the      *)
(* item whose fieldIndex is p, with method 'llm'; an input field without   *)
(* such an item is returned as it was, at its position; and an item whose  *)
(* fieldIndex is the position of no input field changes nothing.           *)
(***************************************************************************)
Overlaid == {"purpose", "confidence", "llmReasoning", "mappingMethod"}

ItemsFor(items, p) == {k \in 1..Len(items) : items[k].fieldIndex = p}

OverlaidWith(field, item, out) ==
    /\ DOMAIN out = DOMAIN field \cup Overlaid
    /\ \A q \in DOMAIN field \ Overlaid : out[q] = field[q]
    /\ out.purpose = item.purpose
    /\ out.confidence = item.confidence
    /\ out.llmReasoning = item.reasoning
    /\ out.mappingMethod = "llm"

MergedByIndex(fields, items, out) ==
    /\ Len(out) = Len(fields)
    /\ \A p \in 1..Len(fields) :
          IF ItemsFor(items, p) = {}
          THEN out[p] = fields[p]
          ELSE OverlaidWith(fields[p], items[Least(ItemsFor(items, p))], out[p])

C28_MergeByIndex ==
    [][\A i \in Invocations :
         \A response \in {a \in FieldResponses : a.content = "json"} :
            (calls[i].pc = "fetch" /\ calls[i].op = "fields" /\ Respond(i, response))
                => MergedByIndex(FieldRequests[calls[i].req].fields, response.value,
                                 calls'[i].result)]_vars

\* C28 witness: the answer to a batch of two fields had no item for field 1,
\* items for field 2 and an item for a field 3: field 1 is as it was, field 2
\* carries the provider's purpose, and the result has two fields.
C28_SecondFieldMerged ==
    \E i \in Invocations :
        /\ calls[i].pc = "done" /\ calls[i].op = "fields" /\ calls[i].outcome = "ok"
        /\ calls[i].req = 2
        /\ Len(calls[i].result) = 2
        /\ calls[i].result[1] = FirstNameField
        /\ calls[i].result[2].mappingMethod = "llm"
        /\ calls[i].result[2].purpose = "email"
        /\ calls[i].result[2].label = EmailField.label


(***************************************************************************)
(* C29.  mapFieldByATS returns the first purpose, in the order in which    *)
(* the platform's table declares them, one of whose selectors matches the  *)
(* field; it returns 'unknown' when the platform has no table (generic,    *)
(* unknown, bamboohr) and when no selector of the table matches; and it    *)
(* changes nothing: not the descriptors, not the page, not the limiter,    *)
(* not the caches.                                                         *)
(***************************************************************************)
NoTable == {"generic", "unknown", "bamboohr"}

\* Some selector of purpose k of the table matches the control.
PurposeMatches(table, k, control) ==
    \E j \in 1..Len(table[k].selectors) : matchesSelector(rawOf(control), table[k].selectors[j])

FirstInOrder(table, control, purpose) ==
    \/ /\ purpose = "unknown"
       /\ \A k \in 1..Len(table) : ~PurposeMatches(table, k, control)
    \/ \E k \in 1..Len(table) :
          /\ purpose = table[k].purpose
          /\ PurposeMatches(table, k, control)
          /\ \A m \in 1..(k - 1) : ~PurposeMatches(table, m, control)

\* A step in which mapFieldByATS gave an answer.
AnsweredByATS ==
    /\ answer' # Null
    /\ answer'.fn = "mapFieldByATS"
    /\ IF answer = Null THEN TRUE
       ELSE \/ answer.fn # "mapFieldByATS"
            \/ answer.index # answer'.index
            \/ answer.result # answer'.result

C29_FirstPurposeInOrder ==
    /\ [](DirectCall("mapFieldByATS") =>
             IF session.atsType \in DOMAIN ATS_FIELD_RULES
             THEN FirstInOrder(ATS_FIELD_RULES[session.atsType], answerControl, answer.result)
             ELSE answer.result = "unknown")
    /\ [](\A a \in NoTable : \A c \in Controls : mapFieldByATS(rawOf(c), a) = "unknown")
    /\ [][AnsweredByATS
             => UNCHANGED <<formFields, session, storageLocal, handlers,
                 RATE_LIMIT, CACHE, calls, stageCalls>>]_vars

\* C29 witness: mapFieldByATS was called on a workday page for a control that
\* selectors of email and of phone both match; it answered email, which the
\* table declares before phone.
C29_EarlierPurposeWins ==
    /\ DirectCall("mapFieldByATS")
    /\ session.atsType = "workday"
    /\ answerControl = ContactControl
    /\ \E k, m \in 1..Len(ATS_FIELD_RULES["workday"]) :
          /\ k < m
          /\ PurposeMatches(ATS_FIELD_RULES["workday"], k, ContactControl)
          /\ PurposeMatches(ATS_FIELD_RULES["workday"], m, ContactControl)
    /\ answer.result = "email"


(***************************************************************************)
(* C30.  Fuzzy matching: findFuzzyMatch returns the category whose         *)
(* similarity to the question is highest among the categories whose        *)
(* similarity exceeds 0.3, the first declared of them on a tie, with       *)
(* matchConfidence = similarity x 0.7, and none when no category exceeds   *)
(* 0.3; so every fuzzy matchConfidence is at most 0.7 and below the 0.9 of *)
(* an exact pattern match; and findFuzzyMatch is called only for a         *)
(* question that no pattern matches.                                       *)
(***************************************************************************)
\* The question as findMatchingTemplate hands it on, whether some pattern of
\* some category matches it, and every category's similarity to its words;
\* each is computed once per question.
normalizedTexts == [q \in QuestionTexts |-> trim(toLowerCase(q))]

exactMatches ==
    [q \in QuestionTexts |->
        \E k \in 1..Len(QUESTION_PATTERNS) :
            \E j \in 1..Len(QUESTION_PATTERNS[k].patterns) :
                test(QUESTION_PATTERNS[k].patterns[j], normalizedTexts[q])]

questionWordsOf == [q \in QuestionTexts |-> split(normalizedTexts[q])]

similarities ==
    [q \in QuestionTexts |->
        [k \in 1..Len(QUESTION_PATTERNS) |->
            fuzzySimilarity(fuzzyScore(questionWordsOf[q], QUESTION_PATTERNS[k].patterns))]]

ExactMatch == exactMatches[session.questionText]

SimilarityOf(k) == similarities[session.questionText][k]

AboveFloor == {k \in 1..Len(QUESTION_PATTERNS) : RatLT(Rat(3, 10), SimilarityOf(k))}

\* The first declared of the categories above the floor that none exceeds.
IsBest(k) ==
    /\ k \in AboveFloor
    /\ \A m \in AboveFloor : RatLE(SimilarityOf(m), SimilarityOf(k))
    /\ \A m \in AboveFloor : m < k => RatLT(SimilarityOf(m), SimilarityOf(k))

Scaled(similarity) == Rat(similarity.n * 7, similarity.d * 10)

C30_FuzzyMatch ==
    DirectCall("findMatchingTemplate") =>
        /\ (stageCalls = <<"findFuzzyMatch">>) <=> ~ExactMatch
        /\ ExactMatch => answer.result.matchConfidence = Rat(9, 10)
        /\ (~ExactMatch /\ AboveFloor = {}) => answer.result = Null
        /\ (~ExactMatch /\ AboveFloor # {}) =>
              /\ \E k \in AboveFloor :
                    /\ IsBest(k)
                    /\ answer.result.key = QUESTION_PATTERNS[k].key
                    /\ answer.result.matchConfidence = Scaled(SimilarityOf(k))
              /\ RatLE(answer.result.matchConfidence, Rat(7, 10))
              /\ RatLT(answer.result.matchConfidence, Rat(9, 10))

\* C30 witness: a question that no pattern matches, for which two categories
\* are above the floor with different similarities and the later declared one
\* is the more similar: that one is returned, at 0.7 times its similarity.
C30_LaterCategoryMoreSimilar ==
    /\ DirectCall("findMatchingTemplate")
    /\ ~ExactMatch
    /\ \E k, m \in AboveFloor :
          /\ m < k
          /\ RatLT(SimilarityOf(m), SimilarityOf(k))
          /\ IsBest(k)
          /\ answer.result.key = QUESTION_PATTERNS[k].key
          /\ answer.result.matchConfidence = Scaled(SimilarityOf(k))


(***************************************************************************)
(* C31.  When a question matches a template pattern, findMatchingTemplate  *)
(* returns a record that carries the matched template's key, that          *)
(* template's category and a matchConfidence, so that the fallback         *)
(* question analysis reports the template's own category ('motivation'     *)
(* for whyInterested) and not a default.                                   *)
(***************************************************************************)
\* The categories of DEFAULT_TEMPLATES, by key.
DEFAULT_TEMPLATES ==
    [whyInterested |-> [category |-> "motivation"],
     whyQualified |-> [category |-> "qualifications"],
     careerGoals |-> [category |-> "goals"],
     greatestStrength |-> [category |-> "strengths"],
     greatestWeakness |-> [category |-> "weaknesses"],
     workStyle |-> [category |-> "work_style"],
     teamwork |-> [category |-> "teamwork"],
     leadership |-> [category |-> "leadership"],
     challenges |-> [category |-> "problem_solving"],
     motivation |-> [category |-> "motivation"],
     coverLetter |-> [category |-> "cover_letter"]]

\* What findMatchingTemplate returns for the question of request r.
QuestionTemplates == [r \in 1..Len(QuestionRequests) |->
                         findMatchingTemplate(QuestionRequests[r].questionText)]

C31_TemplateCategoryReported ==
    \A i \in Invocations :
        (/\ calls[i].pc = "done" /\ calls[i].op = "question"
         /\ calls[i].result.source = "template_fallback"
         /\ patternCategory[calls[i].req] # "") =>
            /\ {"key", "category", "matchConfidence"} \subseteq DOMAIN QuestionTemplates[calls[i].req]
            /\ calls[i].result.category = DEFAULT_TEMPLATES[patternCategory[calls[i].req]].category

\* C31 witness: the question 'Why are you interested in this position?' matched
\* a pattern of whyInterested; the record findMatchingTemplate returned has no
\* category, and the analysis the caller got says 'general'.
C31_DefaultCategoryReported ==
    \E i \in Invocations :
        /\ calls[i].pc = "done" /\ calls[i].op = "question"
        /\ calls[i].result.source = "template_fallback"
        /\ patternCategory[calls[i].req] = "whyInterested"
        /\ calls[i].result.questionType = "whyInterested"
        /\ "category" \notin DOMAIN QuestionTemplates[calls[i].req]
        /\ calls[i].result.category = "general"


(***************************************************************************)
(* C32.  Storage independence: getApiKey resolves to the built-in default  *)
(* key when StorageUtils is absent, when getSettings fails and when no key *)
(* is stored; and whatever the storage does, a call of analyzeFields or    *)
(* analyzeQuestion that the limiter grants and the cache does not answer   *)
(* issues its remote call, and no invocation ends because of the storage.  *)
(***************************************************************************)
\* The key the remote call of this session is to carry.
ExpectedKey == IF storageOf(session) = "stored" THEN StoredKey ELSE DEFAULT_API_KEY

\* The limiter grants a call made now, and the cache has no fresh entry for it.
Allowed(op, r) ==
    /\ canMakeRequest(RATE_LIMIT, now).granted
    /\ ~cacheKey(op, r).threw
    /\ \A e \in {entryFor(op, r)} : e = Null \/ now - e.timestamp > ttl

C32_StorageIndependence ==
    /\ [](\A i \in Invocations :
             /\ calls[i].pc = "fetch" => calls[i].apiKey = ExpectedKey
             /\ calls[i].pc \in {"idle", "fetch", "done"}
             /\ calls[i].pc = "done" => calls[i].outcome # "storage")
    /\ [][\A i \in Invocations :
             (Started(i) /\ Allowed(calls'[i].op, calls'[i].req)) => Issued(i)]_vars

\* C32 witness: getSettings rejected, and the remote call went out with the
\* default key.
C32_DefaultKeyAfterStorageFailure ==
    \E i \in Invocations :
        /\ storageOf(session) = "throws"
        /\ calls[i].pc = "fetch"
        /\ calls[i].apiKey = DEFAULT_API_KEY


(***************************************************************************)
(* C33.  For a question analysed by the remote provider, the confidence of *)
(* the analysis returned is the value the provider reported, for every     *)
(* reported value between 0 and 1, 0 included.                             *)
(***************************************************************************)
C33_ReportedConfidenceReturned ==
    [][\A i \in Invocations :
         \A response \in {a \in QuestionResponses : a.content = "json"} :
            (/\ calls[i].pc = "fetch" /\ calls[i].op = "question"
             /\ Respond(i, response)
             /\ InUnitInterval(response.value.confidence))
                => calls'[i].result.confidence = response.value.confidence]_vars

\* C33 witness: the provider reported a confidence of 0 and the analysis the
\* caller got, with source 'llm', says 0.5.
C33_ZeroReportedAsHalf ==
    \E i \in Invocations :
        /\ session.provider = {"zero"}
        /\ calls[i].pc = "done" /\ calls[i].op = "question" /\ calls[i].outcome = "ok"
        /\ calls[i].result.source = "llm"
        /\ calls[i].result.confidence = Rat(1, 2)


(***************************************************************************)
(* C34.  The field pattern stage matches its regular expressions against   *)
(* the lower-cased concatenation of the field's name, id, placeholder and  *)
(* label: mapFieldByQuestionPatterns answers the purpose of the first      *)
(* pattern that matches that text, so a field whose name alone holds       *)
(* matching text is resolved to that pattern's purpose.                    *)
(***************************************************************************)
\* The first purpose a pattern of which matches name, id, placeholder and label.
fullTextMappings == [c \in Controls |-> questionPatternFor(fieldTextOf(rawOf(c)))]

C34_PatternsReadNameAndId ==
    DirectCall("mapFieldByQuestionPatterns") =>
        answer.result = fullTextMappings[answerControl]

\* C34 witness: a textarea named 'why_interested' and labelled 'Question 1':
\* /why.*interested/ matches its name, and mapFieldByQuestionPatterns, which
\* reads label and placeholder only, answered 'unknown'.
C34_NameNotRead ==
    /\ DirectCall("mapFieldByQuestionPatterns")
    /\ answerControl = MotivationControl
    /\ test(<<"why", "interested">>, toLowerCase(rawOf(MotivationControl).name))
    /\ fullTextMappings[MotivationControl] = "whyInterested"
    /\ answer.result = "unknown"


(***************************************************************************)
(* C35.  mapFields on descriptors with absent attributes.                  *)
(***************************************************************************)
\* The descriptor out is the descriptor in with its mapping merged in.
MappedFrom(in, out) ==
    /\ DOMAIN in \subseteq DOMAIN out
    /\ \A k \in DOMAIN in \ {"purpose"} : out[k] = in[k]
    /\ {"purpose", "confidence", "mappingMethod"} \subseteq DOMAIN out

\* C35: mapFields never throws and returns a list of the length and in the
\* order of its input, for every batch and every platform, descriptors
\* without name, id, placeholder or label included: the content script's
\* formFields are the page's controls in document order, and a call on a
\* batch of descriptors returns one mapped descriptor for each, in place.
C35_MapFieldsReturns ==
    /\ formFields # <<>> =>
          /\ Len(formFields) = Len(session.controls)
          /\ \A i \in 1..Len(formFields) :
                MappedFrom(collectFields(session.controls)[i], formFields[i])
    /\ DirectCall("mapFields") =>
          /\ ~answer.result.threw
          /\ Len(answer.result.value) = Len(answer.result.fields)
          /\ \A i \in 1..Len(answer.result.fields) :
                MappedFrom(answer.result.fields[i], answer.result.value[i])

\* C35 witness: on a greenhouse page mapFields was called on the copy of an
\* e-mail field that has no name, and threw.
C35_ThrowsWithoutName ==
    /\ DirectCall("mapFields")
    /\ session.atsType = "greenhouse"
    /\ answer.result.fields = <<EmailCopy>>
    /\ answer.result.threw


(***************************************************************************)
(* C37.  Name rules in matchesSelectorFallback.                            *)
(***************************************************************************)
\* The selectors of a platform's rules for a purpose
SelectorsOf(atsType, purpose) ==
    UNION {{ATS_FIELD_RULES[atsType][k].selectors[j] :
               j \in 1..Len(ATS_FIELD_RULES[atsType][k].selectors)} :
           k \in {n \in 1..Len(ATS_FIELD_RULES[atsType]) :
                     ATS_FIELD_RULES[atsType][n].purpose = purpose}}

\* The rule is a condition on the name alone, with the given operator.
NameRule(selector, op) ==
    /\ Len(selector.conds) = 1
    /\ selector.conds[1].attr = "name"
    /\ selector.conds[1].op = op
    /\ selector.id = ""

\* The descriptors of a batch that the attribute matcher is used for and
\* that have a name
NamedCopies(fields) ==
    {i \in 1..Len(fields) : tryThrows(fields[i]) /\ "name" \in DOMAIN fields[i]}

\* C37: when the attribute matcher evaluates a rule for a field, a rule
\* [name="X"] matches the field only if its name equals X, and a rule
\* [name*="X"] matches it if and only if its name contains X; so on lever the
\* field named last_name, which input[name="name"] of firstName does not
\* match, is classified lastName.
C37_NameRuleOperators ==
    DirectCall("mapFields") =>
        /\ \A i \in NamedCopies(answer.result.fields) :
             \A a \in DOMAIN ATS_FIELD_RULES :
                \A k \in 1..Len(ATS_FIELD_RULES[a]) :
                   \A s \in SelectorsOf(a, ATS_FIELD_RULES[a][k].purpose) :
                      /\ NameRule(s, "=") =>
                            (matchesSelectorFallback(answer.result.fields[i], s) = "true"
                                => answer.result.fields[i].name = s.conds[1].value)
                      /\ NameRule(s, "*=") =>
                            (matchesSelectorFallback(answer.result.fields[i], s) = "true"
                                <=> includes(answer.result.fields[i].name, s.conds[1].value))
        /\ (session.atsType = "lever" /\ ~answer.result.threw) =>
              \A i \in 1..Len(answer.result.fields) :
                 answer.result.fields[i] = LastNameCopy
                    => answer.result.value[i].purpose = "lastName"

\* C37 witness: on a lever page mapFields was called on the copy of the field
\* named last_name; the rule input[name="name"] of firstName matched it and it
\* came back as firstName, by a rule.
C37_LastNameAsFirstName ==
    /\ DirectCall("mapFields")
    /\ session.atsType = "lever"
    /\ answer.result.fields = <<LastNameCopy>>
    /\ ~answer.result.threw
    /\ matchesSelectorFallback(LastNameCopy, InputNamed("name")) = "true"
    /\ InputNamed("name") \in SelectorsOf("lever", "firstName")
    /\ answer.result.value[1].purpose = "firstName"
    /\ answer.result.value[1].mappingMethod = "ats-specific"


(***************************************************************************)
(* C36.  Question cache keys.                                              *)
(***************************************************************************)
\* The two question requests have the same text, position and company.
SameQuestion(r, q) ==
    /\ QuestionRequests[r].questionText = QuestionRequests[q].questionText
    /\ orEmpty(QuestionRequests[r].context, "position")
         = orEmpty(QuestionRequests[q].context, "position")
    /\ orEmpty(QuestionRequests[r].context, "company")
         = orEmpty(QuestionRequests[q].context, "company")

\* C36: a cache hit of analyzeQuestion returns only an analysis that was
\* stored for the same question text and the same position and company: the
\* entry it returns was written by a call with that text and context, so two
\* different texts under one context never receive each other's analysis.
C36_QuestionHitFromSameRequest ==
    [][\A i \in Invocations :
          (ReturnedAtOnce(i, "hit") /\ calls'[i].op = "question") =>
              \E e \in {entryFor("question", calls'[i].req)} :
                  /\ e.src[1] = "question"
                  /\ SameQuestion(e.src[2], calls'[i].req)]_vars

\* C36 witness: the question about the mission, asked after the analysis of
\* the question about the position was cached under the same context, was
\* answered from the cache with that analysis; the two texts differ and have
\* the same first 24 characters, hence the same key.
C36_AnswerOfOtherQuestion ==
    \E i \in Invocations :
        /\ calls[i].pc = "done" /\ calls[i].outcome = "hit"
        /\ calls[i].op = "question" /\ calls[i].req = 3
        /\ entryFor("question", 3) # Null
        /\ entryFor("question", 3).src = <<"question", 1>>
        /\ calls[i].result = entryFor("question", 3).data
        /\ ~SameQuestion(1, 3)
        /\ QuestionKeys[1] = QuestionKeys[3]
        /\ substring0(QuestionRequests[1].questionText, 24)
             = substring0(QuestionRequests[3].questionText, 24)


(***************************************************************************)
(* Vocabulary of the properties of Part IV.                                *)
(***************************************************************************)
\* Handler h has responded success.
Succeeded(h) == handlers[h].pc = "responded" /\ handlers[h].success

\* In this step the set of handler h writes the storage and h responds success.
Stored(h) ==
    /\ h \in 1..Len(handlers)
    /\ handlers[h].pc = "set"
    /\ handlers'[h].pc = "responded" /\ handlers'[h].success

LogsStored == getResult(storageLocal, "applicationLogs")

(***************************************************************************)
(* C38.  The bound of the application log.                                 *)
(***************************************************************************)
\* C38: the stored applicationLogs never holds more than 50 entries, and
\* after any sequence of CAPTURE_SCREENSHOT and LOG_APPLICATION messages it
\* holds the 50 most recently appended: each handler that stores leaves the
\* list that was stored before it with its own entry appended, cut to the
\* last 50.
C38_LogBounded ==
    /\ [](Len(LogsStored) <= keptApplications)
    /\ [][\A h \in 1..MaxMessages :
             (Stored(h) /\ storageKey(handlers[h].message) = "applicationLogs") =>
                 storageLocal'.applicationLogs
                    = keepLast(Append(LogsStored,
                                      handlers[h].value[Len(handlers[h].value)]),
                               keptApplications)]_vars

\* C38 witness: with 50 applications logged, a LOG_APPLICATION message was
\* handled and answered success; the stored list has 51 entries.
C38_LogOverKept ==
    /\ session.applicationsLogged = keptApplications
    /\ Len(handlers) = 1
    /\ handlers[1].message.type = "LOG_APPLICATION"
    /\ Succeeded(1)
    /\ Len(LogsStored) = keptApplications + 1

(***************************************************************************)
(* C39.  Updates of the stored templates and profiles.                     *)
(***************************************************************************)
\* The handler's message saves what is under name in the stored map.
Saves(message, name) ==
    \/ message.type = "SAVE_TEMPLATE" /\ message.key = name
    \/ message.type = "SAVE_PROFILE" /\ message.profile.id = name

\* The stored map holds what the message saved.
Holds(message) ==
    IF message.type = "SAVE_TEMPLATE"
    THEN /\ message.key \in DOMAIN storageLocal.templates
         /\ storageLocal.templates[message.key] = message.value
    ELSE /\ message.profile.id \in DOMAIN storageLocal.profiles
         /\ storageLocal.profiles[message.profile.id] = stamped(message.profile)

\* C39: no update is lost: when two SAVE_TEMPLATE messages for different keys,
\* or two SAVE_PROFILE messages for different ids, have both been answered
\* success, however their handlers' get and set were interleaved, the storage
\* holds both.
C39_NoLostUpdate ==
    \A g, h \in 1..Len(handlers) :
        (/\ g # h
         /\ Succeeded(g) /\ Succeeded(h)
         /\ handlers[g].message.type = handlers[h].message.type
         /\ handlers[g].message.type \in {"SAVE_TEMPLATE", "SAVE_PROFILE"}
         /\ \A name \in TemplateKeys \cup ProfileIds :
               ~(Saves(handlers[g].message, name) /\ Saves(handlers[h].message, name)))
            => Holds(handlers[g].message) /\ Holds(handlers[h].message)

\* C39 witness: SAVE_TEMPLATE for salary and for relocation were both answered
\* success, and the stored templates have no salary key.
C39_TemplateLost ==
    /\ Len(handlers) = 2
    /\ handlers[1].message.type = "SAVE_TEMPLATE" /\ handlers[1].message.key = "salary"
    /\ handlers[2].message.type = "SAVE_TEMPLATE" /\ handlers[2].message.key = "relocation"
    /\ Succeeded(1) /\ Succeeded(2)
    /\ "salary" \notin DOMAIN storageLocal.templates
    /\ "relocation" \in DOMAIN storageLocal.templates

==========================================================================
